---- MODULE Spec2Model ----
(***************************************************************************)
(* The RAG document pipeline of apmex-agent: ingest_data                   *)
(* (rag_agent/ingest.py) rebuilding the Qdrant collection COLLECTION_NAME, *)
(* and rag_tool (rag_agent/agent.py) answering questions through the chain *)
(* built by build_rag_chain (rag_agent/rag.py).                            *)
(*                                                                         *)
(* Every call on the vector store is one step, so that ingestion runs and  *)
(* answer calls interleave at exactly the places where the code talks to   *)
(* the store.  What happens between two store calls is local to the        *)
(* process and is part of the step that follows it.                        *)
(***************************************************************************)
EXTENDS Integers, Sequences, FiniteSets, TLC

\* ------------------------------------------------------------------ bounds
\* Ingestion runs that may be started (ingest_data invoked twice).
MaxRuns == 2
\* Answer calls that may be issued (rag_tool invoked twice).
MaxCalls == 2
\* Points per upsert request of add_documents (the library batches its
\* embedding and upsert calls; the corpus below is longer than one batch).
BatchSize == 2

\* ------------------------------------------------------- program constants
\* search_kwargs={"k": 4}
K == 4
\* VectorParams(size=768, ...)
VectorSize == 768
\* RecursiveCharacterTextSplitter(chunk_size=1000, chunk_overlap=200)
ChunkSize == 1000
ChunkOverlap == 200

Runs == 1..MaxRuns
Calls == 1..MaxCalls

\* --------------------------------------------------------------- the corpus
\* Entries that os.listdir(DATA_DIR) can return.
AllFiles == {"a.pdf", "b.pdf", "c.PDF", "notes.txt"}

\* The directories ingestion is run on: no entry, no eligible entry, one
\* eligible entry, two eligible entries next to two that are not.
Directories == {{}, {"notes.txt"}, {"a.pdf", "notes.txt"}, AllFiles}

\* The characters of the entry names.
FileName(file) ==
    CASE file = "a.pdf"     -> <<"a", ".", "p", "d", "f">>
      [] file = "b.pdf"     -> <<"b", ".", "p", "d", "f">>
      [] file = "c.PDF"     -> <<"c", ".", "P", "D", "F">>
      [] file = "notes.txt" -> <<"n", "o", "t", "e", "s", ".", "t", "x", "t">>
      [] file = "ingest.py" -> <<"i", "n", "g", "e", "s", "t", ".", "p", "y">>
      [] OTHER              -> <<"u", "t", "i", "l", "s", ".", "p", "y">>

\* str.endswith
EndsWith(s, suffix) ==
    /\ Len(s) >= Len(suffix)
    /\ SubSeq(s, Len(s) - Len(suffix) + 1, Len(s)) = suffix

UpperCase == <<"A", "B", "C", "D", "E", "F", "G", "H", "I", "J", "K", "L", "M", "N", "O", "P", "Q", "R", "S", "T", "U", "V", "W", "X", "Y", "Z">>
LowerCase == <<"a", "b", "c", "d", "e", "f", "g", "h", "i", "j", "k", "l", "m", "n", "o", "p", "q", "r", "s", "t", "u", "v", "w", "x", "y", "z">>

\* str.lower
Lower(s) ==
    [i \in DOMAIN s |->
        IF \E n \in DOMAIN UpperCase : UpperCase[n] = s[i]
        THEN LowerCase[CHOOSE n \in DOMAIN UpperCase : UpperCase[n] = s[i]]
        ELSE s[i]]

\* An eligibility test that ignores the case of the suffix.
IsPdfAnyCase(file) == EndsWith(Lower(FileName(file)), <<".", "p", "d", "f">>)

\* file.endswith(".pdf")
IsPdf(file) == EndsWith(FileName(file), <<".", "p", "d", "f">>)

\* splitter.split_documents(loader.load()) of one file: its chunks, in
\* document order.  "a1" occurs in both files: equal text, distinct chunks.
FileChunks(file) ==
    IF file = "a.pdf" THEN <<"a1", "a2", "a3">>
    ELSE IF file = "b.pdf" THEN <<"b1", "a1">>
    ELSE <<"n1">>

\* Payload texts a collection can hold; the last two were written by an
\* ingestion run that happened before the behaviour starts.
Texts == <<"a1", "a2", "a3", "b1", "n1", "old1", "old2">>

Questions == {"q1", "q2"}

\* The embedding collaborator, text -> vector.  Only the first two of the
\* VectorSize components are non-zero, and those are kept.
Embed(text) ==
    CASE text = "a1"   -> <<3, 1>>
      [] text = "a2"   -> <<1, 3>>
      [] text = "a3"   -> <<0, 2>>
      [] text = "b1"   -> <<2, 2>>
      [] text = "n1"   -> <<1, 1>>
      [] text = "old1" -> <<4, 0>>
      [] text = "old2" -> <<-1, 2>>
      [] text = "q1"   -> <<1, 0>>
      [] text = "q2"   -> <<1, 1>>
      [] OTHER         -> <<1, 2>>

RECURSIVE SeqToSet(_)
SeqToSet(s) == IF s = <<>> THEN {} ELSE {Head(s)} \cup SeqToSet(Tail(s))

\* All orders in which os.listdir can return the entries of a directory.
Listings(dir) ==
    {s \in [1..Cardinality(dir) -> dir] : \A i, j \in DOMAIN s : i # j => s[i] # s[j]}

\* Lines 14-21 of ingest_data: the chunks of the eligible files, in listing order.
RECURSIVE LoadAndSplit(_)
LoadAndSplit(listing) ==
    IF listing = <<>> THEN <<>>
    ELSE (IF IsPdf(Head(listing)) THEN FileChunks(Head(listing)) ELSE <<>>)
         \o LoadAndSplit(Tail(listing))

Eligible(dir) == {f \in dir : IsPdf(f)}

\* ---------------------------------------------------------- the vector store
Absent == [exists |-> FALSE]

\* create_collection(collection_name, VectorParams(size=768, distance=COSINE))
NewCollection == [exists |-> TRUE, size |-> VectorSize, distance |-> "Cosine", points |-> {}]

\* One stored point: the id add_documents draws for the chunk (unique per
\* run and position), and the chunk text as payload.
Point(r, i, text) == [run |-> r, idx |-> i, text |-> text]

\* What the previous, finished ingestion left behind.
OldPoints == {Point(0, 1, "old1"), Point(0, 2, "old2"), Point(0, 3, "a1")}
OldCollection == [NewCollection EXCEPT !.points = OldPoints]

Dot(u, v) == u[1] * v[1] + u[2] * v[2]

\* cos(q, a) > cos(q, b), without square roots.
CosGreater(q, a, b) ==
    LET da == Dot(q, a)
        db == Dot(q, b)
        na == Dot(a, a)
        nb == Dot(b, b)
    IN  IF da >= 0 /\ db >= 0 THEN da * da * nb > db * db * na
        ELSE IF da < 0 /\ db < 0 THEN da * da * nb < db * db * na
        ELSE da >= 0

TextRank(text) == CHOOSE i \in DOMAIN Texts : Texts[i] = text

\* The store's ranking of two points for a query vector: higher cosine
\* similarity first; equal similarity is resolved by a fixed order on the
\* stored payload and id, so that a search is a function of its arguments.
Before(q, x, y) ==
    LET vx == Embed(x.text)
        vy == Embed(y.text)
    IN  \/ CosGreater(q, vx, vy)
        \/ /\ ~CosGreater(q, vy, vx)
           /\ \/ TextRank(x.text) < TextRank(y.text)
              \/ /\ x.text = y.text
                 /\ \/ x.run < y.run
                    \/ x.run = y.run /\ x.idx <= y.idx

RECURSIVE Ranked(_, _)
Ranked(q, pts) ==
    IF pts = {} THEN <<>>
    ELSE LET best == CHOOSE x \in pts : \A y \in pts : Before(q, x, y)
         IN  <<best>> \o Ranked(q, pts \ {best})

Min(a, b) == IF a <= b THEN a ELSE b

\* SimilaritySearch ranking by distance where similarity is meant: the k
\* farthest points, farthest first.
RECURSIVE Reverse(_)
Reverse(s) == IF s = <<>> THEN <<>> ELSE Reverse(Tail(s)) \o <<Head(s)>>

SimilaritySearchFarthest(q, pts, k) ==
    LET all == Reverse(Ranked(q, pts)) IN SubSeq(all, 1, Min(k, Len(all)))

\* similarity-search(vector, k): the k nearest points, nearest first.
SimilaritySearch(q, pts, k) ==
    LET all == Ranked(q, pts) IN SubSeq(all, 1, Min(k, Len(all)))

\* ------------------------------------------------------------ configuration
\* utils.py 12-16: the values read with os.getenv at import.
ConfigKeys == {"DATA_DIR", "QDRANT_URL", "COLLECTION_NAME", "MODEL_NAME", "EMBEDDING_MODEL"}

\* The environments the processes are started in: every key set, or one of
\* DATA_DIR, MODEL_NAME, EMBEDDING_MODEL left out (os.getenv gives None).
Environments ==
    {ConfigKeys} \cup {ConfigKeys \ {k} : k \in {"DATA_DIR", "MODEL_NAME", "EMBEDDING_MODEL"}}

\* Vector lengths of the embedding models EMBEDDING_MODEL can name: the one
\* the collection is created for, and a longer one.
EmbedDims == {VectorSize, 4 * VectorSize}

\* The directory the ingestion job is started from; os.listdir(None) lists it.
WorkingDir == {"ingest.py", "utils.py"}

\* -------------------------------------------------------------------- state
VARIABLES
    env,          \* the configuration keys the environment sets
    embedDim,     \* length of the vectors the configured embedding model returns
    dir,          \* entries of DATA_DIR
    events,       \* events[r]: what lines 14-23 of run r did, in order
    collection,   \* the collection COLLECTION_NAME in the store
    pc,           \* pc[r]: where ingestion run r stands
    docs,         \* docs[r]: the chunks run r is going to write
    next,         \* next[r]: position in docs[r] of the next chunk to insert
    failure,      \* failure[r]: what made run r raise ("none" while it has not)
    storeLog,     \* storeLog[r]: the store calls run r has issued, in order
    reported,     \* reported[r]: the count run r printed (-1: nothing printed)
    afterRun,     \* afterRun[r]: the collection as run r left it when it printed
    alone,        \* alone[r]: no other run was active while run r was
    chain,        \* rag_chain of agent.py: "unbuilt" or "ready"
    cpc,          \* cpc[c]: where answer call c stands
    question,     \* question[c]
    observed,     \* observed[c]: the collection as the search of call c saw it
    retrieved,    \* retrieved[c]: the texts the retriever returned, in order
    prompt,       \* prompt[c]: context and question handed to the generation
    output,       \* output[c]: what the generation returned
    callLog,      \* callLog[c]: the collaborator calls of call c, in order
    answer        \* answer[c]: the dict rag_tool returned

\* One invocation of NumismaticContentPipeline.
VARIABLES
    pipeline,     \* which program's pipeline runs: "loop", "sequential", "none" before
    ppc,          \* where the invocation stands
    stage,        \* index in sub_agents of the current sub-agent
    timesLooped,  \* LoopAgent's count of completed passes over sub_agents
    started,      \* names of the sub-agents run so far, in order
    stateWrites,  \* keys written to the session state, in order
    reads,        \* state keys injected into instructions, in order
    toolCalls     \* tool calls made by the sub-agents, in order

\* One call of the text splitter's split_text, on the text of one loaded page.
VARIABLES
    page,         \* index in Pages of the text being split, 0 before the call
    spc,          \* where the call stands
    frames,       \* the nested _split_text calls, the innermost last
    mergeAt,      \* _merge_splits: where the next split d starts
    currentDoc,   \* _merge_splits: current_doc, as the range of the text it covers
    total,        \* _merge_splits: total
    chunks        \* the chunks produced so far, as ranges of the text

\* The tool functions of wiki.py and of loop_agent/lp_agent1/agent.py, called
\* one after another in one process.
VARIABLES
    toolEnv,      \* what the process was started with: the wikipedia module, NUMISTA_API_KEY
    toolCall,     \* the last tool call: the function and its arguments
    toolResult,   \* what that call returned
    toolLog       \* the calls that call made to its collaborators, in order

ingestVars == <<env, embedDim, dir, events, collection, pc, docs, next, failure, storeLog, reported, afterRun, alone>>
ragVars == <<chain, cpc, question, observed, retrieved, prompt, output, callLog, answer>>
toolVars == <<toolEnv, toolCall, toolResult, toolLog>>
splitVars == <<page, spc, frames, mergeAt, currentDoc, total, chunks>>
pipeVars == <<pipeline, ppc, stage, timesLooped, started, stateWrites, reads, toolCalls>>
vars == <<env, embedDim, dir, events, collection, pc, docs, next, failure, storeLog, reported, afterRun, alone,
          chain, cpc, question, observed, retrieved, prompt, output, callLog, answer,
          pipeline, ppc, stage, timesLooped, started, stateWrites, reads, toolCalls,
          page, spc, frames, mergeAt, currentDoc, total, chunks,
          toolEnv, toolCall, toolResult, toolLog>>
ragAgentVars == <<ingestVars, ragVars, splitVars>>

None == [none |-> TRUE]

\* What the generation collaborator may return: some answer text, or the
\* refusal sentence of the prompt.
GenOutputs == {"answer text", "I cannot answer this question"}

Active(r) == pc[r] \notin {"idle", "done", "failed"}

Init ==
    /\ env \in Environments
    /\ embedDim \in (IF env = ConfigKeys THEN EmbedDims ELSE {VectorSize})
    /\ dir \in (IF env = ConfigKeys /\ embedDim = VectorSize THEN Directories ELSE {AllFiles})
    /\ events = [r \in Runs |-> <<>>]
    /\ collection \in {Absent, OldCollection, [OldCollection EXCEPT !.size = embedDim]}
    /\ pc = [r \in Runs |-> "idle"]
    /\ docs = [r \in Runs |-> <<>>]
    /\ next = [r \in Runs |-> 1]
    /\ failure = [r \in Runs |-> "none"]
    /\ storeLog = [r \in Runs |-> <<>>]
    /\ reported = [r \in Runs |-> -1]
    /\ afterRun = [r \in Runs |-> None]
    /\ alone = [r \in Runs |-> TRUE]
    /\ chain = "unbuilt"
    /\ cpc = [c \in Calls |-> "idle"]
    /\ question = [c \in Calls |-> "q1"]
    /\ observed = [c \in Calls |-> None]
    /\ retrieved = [c \in Calls |-> <<>>]
    /\ prompt = [c \in Calls |-> None]
    /\ output = [c \in Calls |-> ""]
    /\ callLog = [c \in Calls |-> <<>>]
    /\ answer = [c \in Calls |-> None]
    /\ pipeline = "none"
    /\ ppc = "idle"
    /\ stage = 1
    /\ timesLooped = 0
    /\ started = <<>>
    /\ stateWrites = <<>>
    /\ reads = <<>>
    /\ toolCalls = <<>>
    /\ page = 0
    /\ spc = "idle"
    /\ frames = <<>>
    /\ mergeAt = 0
    /\ currentDoc = <<0, 0>>
    /\ total = 0
    /\ chunks = <<>>
    /\ toolEnv = None
    /\ toolCall = None
    /\ toolResult = None
    /\ toolLog = <<>>

\* ------------------------------------------------------------- ingest_data
\* Run r raises: nothing after the raising statement is executed.
Raise(r, why) ==
    /\ pc' = [pc EXCEPT ![r] = "failed"]
    /\ failure' = [failure EXCEPT ![r] = why]

\* utils.py 22-26: the splitter's constructor refuses an overlap larger than
\* the chunk size, and nothing else.
SplitterConstructs == ChunkOverlap <= ChunkSize

\* ingest.py 15: os.listdir(DATA_DIR); with DATA_DIR None it lists the
\* working directory.
Entries == IF "DATA_DIR" \in env THEN dir ELSE WorkingDir

\* ingest.py 17-18 and 20, as events.
LoadEvent(file) == [op |-> "load", file |-> file]
SplitterEvent == [op |-> "get_text_splitter", file |-> ""]

\* ingest.py 15-18: the loader.load() calls of the loop, in listing order.
RECURSIVE Loads(_)
Loads(listing) ==
    IF listing = <<>> THEN <<>>
    ELSE (IF IsPdf(Head(listing)) THEN <<LoadEvent(Head(listing))>> ELSE <<>>)
         \o Loads(Tail(listing))

\* StartIngest with the collection dropped before the files are loaded.
StartIngestDropFirst(r) ==
    /\ pc[r] = "idle"
    /\ \A x \in Runs : x < r => pc[x] # "idle"
    /\ alone' = [x \in Runs |->
                    IF x = r THEN \A y \in Runs \ {r} : ~Active(y)
                    ELSE IF Active(x) THEN FALSE ELSE alone[x]]
    /\ storeLog' = [storeLog EXCEPT ![r] = <<"exists", "delete">>]
    /\ collection' = Absent
    /\ \E listing \in Listings(Entries), loadOk \in BOOLEAN :
          IF loadOk /\ ~SplitterConstructs
          THEN /\ events' = [events EXCEPT ![r] = Loads(listing) \o <<SplitterEvent>>]
               /\ Raise(r, "config")
               /\ UNCHANGED docs
          ELSE IF loadOk
          THEN /\ docs' = [docs EXCEPT ![r] = LoadAndSplit(listing)]
               /\ events' = [events EXCEPT ![r] = Loads(listing) \o <<SplitterEvent>>]
               /\ pc' = [pc EXCEPT ![r] = "create"]
               /\ UNCHANGED failure
          ELSE /\ \E n \in 1..Len(Loads(listing)) :
                     events' = [events EXCEPT ![r] = SubSeq(Loads(listing), 1, n)]
               /\ Raise(r, "extract")
               /\ UNCHANGED docs
    /\ UNCHANGED <<env, embedDim, dir, next, reported, afterRun>>
    /\ UNCHANGED <<ragVars, pipeVars, splitVars, toolVars>>

\* ingest.py 14-23: list the directory, load every .pdf entry, construct the
\* splitter, split, open the client.  loadOk = FALSE: PyPDFLoader raises on
\* one of the files, the n-th it is given.
StartIngest(r) ==
    /\ pc[r] = "idle"
    /\ \A x \in Runs : x < r => pc[x] # "idle"
    /\ alone' = [x \in Runs |->
                    IF x = r THEN \A y \in Runs \ {r} : ~Active(y)
                    ELSE IF Active(x) THEN FALSE ELSE alone[x]]
    /\ \E listing \in Listings(Entries), loadOk \in BOOLEAN :
          IF loadOk /\ ~SplitterConstructs
          THEN /\ events' = [events EXCEPT ![r] = Loads(listing) \o <<SplitterEvent>>]
               /\ Raise(r, "config")
               /\ UNCHANGED docs
          ELSE IF loadOk
          THEN /\ docs' = [docs EXCEPT ![r] = LoadAndSplit(listing)]
               /\ events' = [events EXCEPT ![r] = Loads(listing) \o <<SplitterEvent>>]
               /\ pc' = [pc EXCEPT ![r] = "exists"]
               /\ UNCHANGED failure
          ELSE /\ \E n \in 1..Len(Loads(listing)) :
                     events' = [events EXCEPT ![r] = SubSeq(Loads(listing), 1, n)]
               /\ Raise(r, "extract")
               /\ UNCHANGED docs
    /\ UNCHANGED <<env, embedDim, dir, collection, next, storeLog, reported, afterRun>>
    /\ UNCHANGED <<ragVars, pipeVars, splitVars, toolVars>>

\* CollectionExists with an existing collection kept and added to.
CollectionExistsKeep(r) ==
    /\ pc[r] = "exists"
    /\ storeLog' = [storeLog EXCEPT ![r] = Append(@, "exists")]
    /\ pc' = [pc EXCEPT ![r] = IF collection.exists THEN "attach" ELSE "create"]
    /\ UNCHANGED <<env, embedDim, dir, events, collection, docs, next, failure, reported, afterRun, alone>>
    /\ UNCHANGED <<ragVars, pipeVars, splitVars, toolVars>>

\* CollectionExists followed by the delete call whatever the check returned.
CollectionExistsAlwaysDelete(r) ==
    /\ pc[r] = "exists"
    /\ storeLog' = [storeLog EXCEPT ![r] = Append(@, "exists")]
    /\ pc' = [pc EXCEPT ![r] = "delete"]
    /\ UNCHANGED <<env, embedDim, dir, events, collection, docs, next, failure, reported, afterRun, alone>>
    /\ UNCHANGED <<ragVars, pipeVars, splitVars, toolVars>>

\* ingest.py 25: client.collection_exists(COLLECTION_NAME)
CollectionExists(r) ==
    /\ pc[r] = "exists"
    /\ storeLog' = [storeLog EXCEPT ![r] = Append(@, "exists")]
    /\ pc' = [pc EXCEPT ![r] = IF collection.exists THEN "delete" ELSE "create"]
    /\ UNCHANGED <<env, embedDim, dir, events, collection, docs, next, failure, reported, afterRun, alone>>
    /\ UNCHANGED <<ragVars, pipeVars, splitVars, toolVars>>

\* DeleteCollection with the delete call lost.
DeleteCollectionSkipped(r) ==
    /\ pc[r] = "delete"
    /\ pc' = [pc EXCEPT ![r] = "create"]
    /\ UNCHANGED <<env, embedDim, dir, events, collection, docs, next, failure, storeLog, reported, afterRun, alone>>
    /\ UNCHANGED <<ragVars, pipeVars, splitVars, toolVars>>

\* ingest.py 26: client.delete_collection(COLLECTION_NAME); deleting a
\* collection that is no longer there is not an error.
DeleteCollection(r) ==
    /\ pc[r] = "delete"
    /\ storeLog' = [storeLog EXCEPT ![r] = Append(@, "delete")]
    /\ collection' = Absent
    /\ pc' = [pc EXCEPT ![r] = "create"]
    /\ UNCHANGED <<env, embedDim, dir, events, docs, next, failure, reported, afterRun, alone>>
    /\ UNCHANGED <<ragVars, pipeVars, splitVars, toolVars>>

\* ingest.py 28-34: client.create_collection(...); the store refuses to
\* create a collection that exists.
CreateCollection(r) ==
    /\ pc[r] = "create"
    /\ storeLog' = [storeLog EXCEPT ![r] = Append(@, "create")]
    /\ IF collection.exists
       THEN /\ Raise(r, "store")
            /\ UNCHANGED collection
       ELSE /\ collection' = NewCollection
            /\ pc' = [pc EXCEPT ![r] = "attach"]
            /\ UNCHANGED failure
    /\ UNCHANGED <<env, embedDim, dir, events, docs, next, reported, afterRun, alone>>
    /\ UNCHANGED <<ragVars, pipeVars, splitVars, toolVars>>

\* ingest.py 36-40: get_embeddings() raises without a model name; then
\* QdrantVectorStore(client, collection_name, embedding) reads the
\* collection's configuration and embeds a probe text to compare its length
\* with the collection's vector size.  embedOk = FALSE: the embedding call
\* raises.
AttachVectorStore(r) ==
    /\ pc[r] = "attach"
    /\ IF "EMBEDDING_MODEL" \notin env
       THEN /\ Raise(r, "config")
            /\ UNCHANGED storeLog
       ELSE /\ storeLog' = [storeLog EXCEPT ![r] = Append(@, "get")]
            /\ \E embedOk \in BOOLEAN :
                  IF ~collection.exists THEN Raise(r, "store")
                  ELSE IF ~embedOk THEN Raise(r, "embed")
                  ELSE IF collection.size # embedDim THEN Raise(r, "dimension")
                  ELSE /\ pc' = [pc EXCEPT ![r] = "add"]
                       /\ UNCHANGED failure
    /\ UNCHANGED <<env, embedDim, dir, events, collection, docs, next, reported, afterRun, alone>>
    /\ UNCHANGED <<ragVars, pipeVars, splitVars, toolVars>>

\* The chunks of the batch that starts at position `from`.
BatchEnd(r, from) == Min(from + BatchSize - 1, Len(docs[r]))
\* BatchPoints with the last chunk of every batch left out.
BatchPointsShort(r, from) == {Point(r, i, docs[r][i]) : i \in from..(BatchEnd(r, from) - 1)}

BatchPoints(r, from) == {Point(r, i, docs[r][i]) : i \in from..BatchEnd(r, from)}

\* AddDocuments losing the chunk that follows each batch.
AddDocumentsSkip(r) ==
    /\ pc[r] = "add"
    /\ next[r] <= Len(docs[r])
    /\ \E embedOk \in BOOLEAN :
          IF ~embedOk
          THEN /\ Raise(r, "embed")
               /\ UNCHANGED <<collection, next, storeLog>>
          ELSE /\ storeLog' = [storeLog EXCEPT ![r] = Append(@, "upsert")]
               /\ IF ~collection.exists
                  THEN /\ Raise(r, "store")
                       /\ UNCHANGED <<collection, next>>
                  ELSE /\ collection' = [collection EXCEPT
                                           !.points = @ \cup BatchPoints(r, next[r])]
                       /\ next' = [next EXCEPT ![r] = BatchEnd(r, next[r]) + 2]
                       /\ UNCHANGED <<pc, failure>>
    /\ UNCHANGED <<env, embedDim, dir, events, docs, reported, afterRun, alone>>
    /\ UNCHANGED <<ragVars, pipeVars, splitVars, toolVars>>

\* ingest.py 42: one round of vectorstore.add_documents(docs): embed the
\* next batch of chunks, then upsert it.
AddDocuments(r) ==
    /\ pc[r] = "add"
    /\ next[r] <= Len(docs[r])
    /\ \E embedOk \in BOOLEAN :
          IF ~embedOk
          THEN /\ Raise(r, "embed")
               /\ UNCHANGED <<collection, next, storeLog>>
          ELSE /\ storeLog' = [storeLog EXCEPT ![r] = Append(@, "upsert")]
               /\ IF ~collection.exists
                  THEN /\ Raise(r, "store")
                       /\ UNCHANGED <<collection, next>>
                  ELSE /\ collection' = [collection EXCEPT
                                           !.points = @ \cup BatchPoints(r, next[r])]
                       /\ next' = [next EXCEPT ![r] = BatchEnd(r, next[r]) + 1]
                       /\ UNCHANGED <<pc, failure>>
    /\ UNCHANGED <<env, embedDim, dir, events, docs, reported, afterRun, alone>>
    /\ UNCHANGED <<ragVars, pipeVars, splitVars, toolVars>>

\* Report printing the number of files where the number of chunks is meant.
ReportFiles(r) ==
    /\ pc[r] = "add"
    /\ next[r] > Len(docs[r])
    /\ reported' = [reported EXCEPT ![r] = Cardinality(Eligible(Entries))]
    /\ afterRun' = [afterRun EXCEPT ![r] = collection]
    /\ pc' = [pc EXCEPT ![r] = "done"]
    /\ UNCHANGED <<env, embedDim, dir, events, collection, docs, next, failure, storeLog, alone>>
    /\ UNCHANGED <<ragVars, pipeVars, splitVars, toolVars>>

\* ingest.py 44: add_documents has returned; print the count.
Report(r) ==
    /\ pc[r] = "add"
    /\ next[r] > Len(docs[r])
    /\ reported' = [reported EXCEPT ![r] = Len(docs[r])]
    /\ afterRun' = [afterRun EXCEPT ![r] = collection]
    /\ pc' = [pc EXCEPT ![r] = "done"]
    /\ UNCHANGED <<env, embedDim, dir, events, collection, docs, next, failure, storeLog, alone>>
    /\ UNCHANGED <<ragVars, pipeVars, splitVars, toolVars>>

Ingest(r) ==
    \/ StartIngest(r)
    \/ CollectionExists(r)
    \/ DeleteCollection(r)
    \/ CreateCollection(r)
    \/ AttachVectorStore(r)
    \/ AddDocuments(r)
    \/ Report(r)

\* ---------------------------------------------------- rag_chain and rag_tool
\* ChainBuilds with the comparison of vector lengths switched off.
ChainBuildsUnvalidated(embedOk) ==
    /\ "EMBEDDING_MODEL" \in env
    /\ collection.exists
    /\ embedOk
    /\ "MODEL_NAME" \in env

\* rag.py 16-20 and 50: the constructors of build_rag_chain all return.
ChainBuilds(embedOk) ==
    /\ "EMBEDDING_MODEL" \in env
    /\ collection.exists
    /\ embedOk
    /\ collection.size = embedDim
    /\ "MODEL_NAME" \in env

\* BuildRagChain recreating the collection it attaches to.
BuildRagChainRecreate ==
    /\ chain = "unbuilt"
    /\ \E embedOk \in BOOLEAN :
          /\ chain' = IF ChainBuilds(embedOk) THEN "ready" ELSE "unbuilt"
          /\ collection' = IF ChainBuilds(embedOk) THEN NewCollection ELSE collection
    /\ UNCHANGED <<cpc, question, observed, retrieved, prompt, output, callLog, answer>>
    /\ UNCHANGED <<env, embedDim, dir, events, pc, docs, next, failure, storeLog, reported, afterRun, alone>>
    /\ UNCHANGED <<pipeVars, splitVars, toolVars>>

\* agent.py 5, rag.py 13-55: build_rag_chain() at import.  The vector store
\* object is constructed as in ingest.py 36-40 and the LLM object needs a
\* model name; when either raises, the import fails and there is no chain.
BuildRagChain ==
    /\ chain = "unbuilt"
    /\ \E embedOk \in BOOLEAN :
          chain' = IF ChainBuilds(embedOk) THEN "ready" ELSE "unbuilt"
    /\ UNCHANGED <<cpc, question, observed, retrieved, prompt, output, callLog, answer>>
    /\ UNCHANGED <<ingestVars, pipeVars, splitVars, toolVars>>

RECURSIVE TextsOf(_)
TextsOf(points) ==
    IF points = <<>> THEN <<>> ELSE <<Head(points).text>> \o TextsOf(Tail(points))

\* The "stuff" chain's context: the retrieved texts in retrieval order,
\* separated by a blank line.
RECURSIVE JoinDocuments(_)
JoinDocuments(texts) ==
    IF texts = <<>> THEN <<>>
    ELSE IF Len(texts) = 1 THEN texts
    ELSE <<Head(texts), "\n\n">> \o JoinDocuments(Tail(texts))

CallRaise(c) == cpc' = [cpc EXCEPT ![c] = "raised"]

\* agent.py 8, rag.py 22-25: rag_chain.invoke(question) up to the end of the
\* retrieval: embed the question, then one similarity search with k = 4.  The
\* store rejects the search when the collection is gone or when the query
\* vector has not the length of the collection's vectors.
Retrieve(c) ==
    /\ chain = "ready"
    /\ cpc[c] = "idle"
    /\ \A x \in Calls : x < c => cpc[x] # "idle"
    /\ \E q \in Questions, embedOk \in BOOLEAN :
          /\ question' = [question EXCEPT ![c] = q]
          /\ IF ~embedOk
             THEN /\ callLog' = [callLog EXCEPT ![c] = <<"embed">>]
                  /\ CallRaise(c)
                  /\ UNCHANGED <<observed, retrieved>>
             ELSE /\ callLog' = [callLog EXCEPT ![c] = <<"embed", "search">>]
                  /\ IF ~collection.exists \/ collection.size # embedDim
                     THEN /\ CallRaise(c)
                          /\ UNCHANGED <<observed, retrieved>>
                     ELSE /\ observed' = [observed EXCEPT ![c] = collection]
                          /\ retrieved' = [retrieved EXCEPT ![c] =
                                TextsOf(SimilaritySearch(Embed(q), collection.points, K))]
                          /\ cpc' = [cpc EXCEPT ![c] = "generate"]
    /\ UNCHANGED <<chain, prompt, output, answer>>
    /\ UNCHANGED <<ingestVars, pipeVars, splitVars, toolVars>>

\* rag.py 27-55: fill the prompt with the context and the question and call
\* the LLM.  genOk = FALSE: the generation call raises.
Generate(c) ==
    /\ cpc[c] = "generate"
    /\ prompt' = [prompt EXCEPT ![c] =
                    [context |-> JoinDocuments(retrieved[c]), question |-> question[c]]]
    /\ callLog' = [callLog EXCEPT ![c] = Append(@, "generate")]
    /\ \E genOk \in BOOLEAN :
          IF genOk
          THEN \E text \in GenOutputs :
                  /\ output' = [output EXCEPT ![c] = text]
                  /\ cpc' = [cpc EXCEPT ![c] = "return"]
          ELSE /\ CallRaise(c)
               /\ UNCHANGED output
    /\ UNCHANGED <<chain, question, observed, retrieved, answer>>
    /\ UNCHANGED <<ingestVars, pipeVars, splitVars, toolVars>>

\* Return with the generation output replaced by a cleaned-up text.
ReturnRewritten(c) ==
    /\ cpc[c] = "return"
    /\ answer' = [answer EXCEPT ![c] = [status |-> "success", answer |-> "cleaned answer"]]
    /\ cpc' = [cpc EXCEPT ![c] = "returned"]
    /\ UNCHANGED <<chain, question, observed, retrieved, prompt, output, callLog>>
    /\ UNCHANGED <<ingestVars, pipeVars, splitVars, toolVars>>

\* agent.py 9-12: the dict rag_tool returns.
Return(c) ==
    /\ cpc[c] = "return"
    /\ answer' = [answer EXCEPT ![c] = [status |-> "success", answer |-> output[c]]]
    /\ cpc' = [cpc EXCEPT ![c] = "returned"]
    /\ UNCHANGED <<chain, question, observed, retrieved, prompt, output, callLog>>
    /\ UNCHANGED <<ingestVars, pipeVars, splitVars, toolVars>>

RagTool(c) ==
    \/ Retrieve(c)
    \/ Generate(c)
    \/ Return(c)

\* The whole system: ingestion jobs and the answering agent side by side.
\* ------------------------------------------------ NumismaticContentPipeline
\* The two programs that define NumismaticContentPipeline: the LoopAgent of
\* loop_agent/lp_agent1/agent.py and the SequentialAgent of
\* summary_agent/agent.py.
Pipelines == {"loop", "sequential"}

\* sub_agents=[content_creation_agent, content_verification_agent,
\* content_adjustment_agent], by name; the same list in both programs.
SubAgents == <<"content_creator", "content_verifier", "content_adjuster">>

\* A content_adjuster that is given the verifier's research tool.
ToolsAdjusterResearches(p, agent) ==
    CASE agent = "content_creator" ->
            IF p = "loop" THEN {"numista_researcher", "google_researcher"}
            ELSE {"numista_researcher", "wikipedia_researcher", "google_researcher"}
      [] agent = "content_verifier" ->
            IF p = "loop" THEN {"numista_researcher"}
            ELSE {"numista_researcher", "wikipedia_researcher"}
      [] OTHER -> {"numista_researcher"}

\* tools=[AgentTool(...), ...] of each sub-agent, by the name of the wrapped
\* agent; content_adjustment_agent is given no tools argument.
Tools(p, agent) ==
    CASE agent = "content_creator" ->
            IF p = "loop" THEN {"numista_researcher", "google_researcher"}
            ELSE {"numista_researcher", "wikipedia_researcher", "google_researcher"}
      [] agent = "content_verifier" ->
            IF p = "loop" THEN {"numista_researcher"}
            ELSE {"numista_researcher", "wikipedia_researcher"}
      [] OTHER -> {}

\* output_key of every agent.
OutputKey(agent) ==
    CASE agent = "numista_researcher" -> "numista_data"
      [] agent = "wikipedia_researcher" -> "wikipedia_data"
      [] agent = "google_researcher" -> "market_data"
      [] agent = "content_creator" -> "draft_narrative"
      [] agent = "content_verifier" -> "verified_narrative"
      [] OTHER -> "final_narrative"

\* The {key} placeholders of each sub-agent's instruction.
Placeholders(agent) ==
    CASE agent = "content_verifier" -> {"draft_narrative"}
      [] agent = "content_adjuster" -> {"verified_narrative"}
      [] OTHER -> {}

\* max_iterations=1
MaxIterations == 1

\* The most tool calls the model makes in one sub-agent's run.
MaxToolCalls == 2

\* A loop that makes one pass more than max_iterations.
RunsAgainOnceMore(p, looped) == p = "loop" /\ looped < MaxIterations + 1

\* After a pass over sub_agents: LoopAgent starts another while
\* times_looped < max_iterations; SequentialAgent makes one pass.
RunsAgain(p, looped) == p = "loop" /\ looped < MaxIterations

Agent == SubAgents[stage]

Written == SeqToSet(stateWrites)

CallsOf(agent) == Cardinality({i \in DOMAIN toolCalls : toolCalls[i].agent = agent})

\* The pipeline is invoked in one of the two programs.
StartPipeline ==
    /\ ppc = "idle"
    /\ \E p \in Pipelines : pipeline' = p
    /\ ppc' = "begin"
    /\ UNCHANGED <<stage, timesLooped, started, stateWrites, reads, toolCalls>>
    /\ UNCHANGED <<ragAgentVars, toolVars>>

\* The current sub-agent starts: its instruction is built, each placeholder
\* replaced by the value of its key in the session state; a key that is not
\* in the state is an error.
BeginStage ==
    /\ ppc = "begin"
    /\ started' = Append(started, Agent)
    /\ IF Placeholders(Agent) \subseteq Written
       THEN /\ reads' = reads \o
                    IF Placeholders(Agent) = {} THEN <<>>
                    ELSE <<[agent |-> Agent,
                            key |-> CHOOSE k \in Placeholders(Agent) : TRUE,
                            at |-> Len(stateWrites)]>>
            /\ ppc' = "llm"
       ELSE /\ ppc' = "failed"
            /\ UNCHANGED reads
    /\ UNCHANGED <<pipeline, stage, timesLooped, stateWrites, toolCalls>>
    /\ UNCHANGED <<ragAgentVars, toolVars>>

\* The model asks for one of the tools registered with the current sub-agent:
\* the wrapped agent runs and its state, with its output key, is carried into
\* the session state.
CallTool ==
    /\ ppc = "llm"
    /\ CallsOf(Agent) < MaxToolCalls
    /\ \E tool \in Tools(pipeline, Agent) :
          /\ toolCalls' = Append(toolCalls, [agent |-> Agent, tool |-> tool])
          /\ stateWrites' = Append(stateWrites, OutputKey(tool))
    /\ UNCHANGED <<pipeline, ppc, stage, timesLooped, started, reads>>
    /\ UNCHANGED <<ragAgentVars, toolVars>>

\* The model's final response ends the sub-agent's run: its text is saved
\* under output_key and the next sub-agent follows; after the last one the
\* pass is over.
FinishStage ==
    /\ ppc = "llm"
    /\ stateWrites' = Append(stateWrites, OutputKey(Agent))
    /\ IF stage < Len(SubAgents)
       THEN /\ stage' = stage + 1
            /\ ppc' = "begin"
            /\ UNCHANGED timesLooped
       ELSE /\ timesLooped' = timesLooped + 1
            /\ stage' = 1
            /\ ppc' = IF RunsAgain(pipeline, timesLooped + 1) THEN "begin" ELSE "done"
    /\ UNCHANGED <<pipeline, started, reads, toolCalls>>
    /\ UNCHANGED <<ragAgentVars, toolVars>>

\* A model call or a tool raises: the invocation ends there.
FailStage ==
    /\ ppc = "llm"
    /\ ppc' = "failed"
    /\ UNCHANGED <<pipeline, stage, timesLooped, started, stateWrites, reads, toolCalls>>
    /\ UNCHANGED <<ragAgentVars, toolVars>>

Pipeline ==
    \/ StartPipeline
    \/ BeginStage
    \/ CallTool
    \/ FinishStage
    \/ FailStage

\* ------------------------------------------------------- the text splitter
\* get_text_splitter(): RecursiveCharacterTextSplitter(chunk_size=1000,
\* chunk_overlap=200), with the library's defaults: separators "\n\n", "\n",
\* " ", "" tried in this order, each kept at the start of the split that
\* follows it, length measured in characters, chunks stripped of surrounding
\* whitespace. A text is a sequence of one-character strings; a split, a
\* current_doc and a chunk are ranges <<from, to>> of it, to excluded.
Rep(c, n) == [i \in 1..n |-> c]

\* The page texts split: blank pages, short pages, pages of exactly
\* chunk_size characters, paragraphs, words, and runs without any separator.
Pages ==
    << <<>>,
       Rep(" ", 2) \o Rep("\n", 1),
       Rep(" ", 1) \o Rep("a", 10) \o Rep(" ", 1) \o Rep("b", 5) \o Rep("\n", 1),
       Rep("a", 1000),
       Rep("a", 400) \o Rep("\n", 2) \o Rep("b", 598),
       Rep("a", 600) \o Rep("\n", 2) \o Rep("b", 600) \o Rep("\n", 2) \o Rep("c", 600),
       Rep("a", 1300),
       Rep("a", 150) \o Rep(" ", 1) \o Rep("b", 150) \o Rep(" ", 1) \o Rep("c", 150) \o Rep(" ", 1)
          \o Rep("d", 150) \o Rep(" ", 1) \o Rep("e", 150) \o Rep(" ", 1) \o Rep("f", 150) \o Rep(" ", 1)
          \o Rep("g", 150) \o Rep("\n", 1) \o Rep("h", 150),
       Rep("a", 100) \o Rep("\n", 3) \o Rep("b", 1201) \o Rep("\n", 2) \o Rep("c", 100) >>

Text == IF page = 0 THEN <<>> ELSE Pages[page]

Whitespace(c) == c \in {" ", "\n"}

\* The separators by their place in the list; the last one is "".
NumSeparators == 4

Least(S) == CHOOSE x \in S : \A y \in S : x <= y

\* Where the run of newlines that holds position p begins, in the text
\* from a on.
RunStart(t, a, p) == Least({q \in a..p : \A j \in q..p : t[j] = "\n"})

\* re.split on the text t[a..b-1] by separator k: a match starts at p.
\* Matches of "\n\n" do not overlap, so a run of newlines is matched in pairs
\* from its start; "" splits the text into its characters.
MatchStart(t, a, b, k, p) ==
    CASE k = 1 -> /\ p + 1 < b
                  /\ t[p] = "\n" /\ t[p + 1] = "\n"
                  /\ (p - RunStart(t, a, p)) % 2 = 0
      [] k = 2 -> t[p] = "\n"
      [] k = 3 -> t[p] = " "
      [] OTHER -> TRUE

\* _split_text: the first separator of separators[k..] that occurs in the
\* text, or "" when it is reached.
ChooseSeparator(t, a, b, k) ==
    Least({j \in k..NumSeparators :
              j = NumSeparators \/ \E p \in a..(b - 1) : MatchStart(t, a, b, j, p)})

\* A _split_text call on t[a..b-1] with separators[k..]: its separator, the
\* start of the split its loop looks at next, and the start of _good_splits
\* (0 when the list is empty; the list holds the splits up to `at`).
Frame(t, a, b, k) ==
    [a |-> a, b |-> b, sep |-> ChooseSeparator(t, a, b, k), at |-> a, good |-> 0]

Top == frames[Len(frames)]

\* Where the split that starts at p ends: at the next match, or at the end
\* of the text of the call.
SplitEnd(t, f, p) ==
    IF p >= f.b THEN f.b
    ELSE IF f.sep = NumSeparators THEN p + 1
    ELSE Least({c \in (p + 1)..f.b : c = f.b \/ MatchStart(t, f.a, f.b, f.sep, c)})

\* _join_docs: the joined splits stripped of surrounding whitespace; a range
\* with from = to when nothing is left.
Strip(t, r) ==
    LET from == Least({p \in r[1]..r[2] : p = r[2] \/ ~Whitespace(t[p])})
        to == Least({q \in from..r[2] : \A j \in q..(r[2] - 1) : Whitespace(t[j])})
    IN  <<from, to>>

\* docs.append(doc) unless _join_docs returned None.
WithJoined(t, out, r) ==
    IF Strip(t, r)[1] = Strip(t, r)[2] THEN out ELSE Append(out, Strip(t, r))

\* A split is flushed one character later than chunk_size allows.
ExceedsLate(sum, len) == sum + len > ChunkSize + 1

\* _merge_splits: adding the split d would make current_doc longer than
\* chunk_size (the separator joined in is "", of length 0).
Exceeds(sum, len) == sum + len > ChunkSize

\* A current_doc that keeps one character more than chunk_overlap.
PopsLate(sum, len) == sum > ChunkOverlap + 1 \/ (sum + len > ChunkSize /\ sum > 0)

\* _merge_splits: the condition of the while loop that drops splits from the
\* front of current_doc after a chunk was emitted.
Pops(sum, len) == sum > ChunkOverlap \/ (sum + len > ChunkSize /\ sum > 0)

\* The start of current_doc after that while loop: the first of its splits at
\* which the loop stops, its end when every split is dropped.
AfterPops(t, f, r, len) ==
    Least({c \in r[1]..r[2] :
              /\ c = r[1] \/ c = r[2] \/ MatchStart(t, f.a, f.b, f.sep, c)
              /\ ~Pops(r[2] - c, len)})

\* split_text(text) is called on the text of a page.
SplitText ==
    /\ spc = "idle"
    /\ \E n \in DOMAIN Pages :
          /\ page' = n
          /\ frames' = <<Frame(Pages[n], 1, Len(Pages[n]) + 1, 1)>>
    /\ spc' = "split"
    /\ UNCHANGED <<mergeAt, currentDoc, total, chunks>>
    /\ UNCHANGED <<ingestVars, ragVars, pipeVars, toolVars>>

\* _split_text, loop over splits: a split shorter than chunk_size joins
\* _good_splits.
GoodSplit ==
    /\ spc = "split"
    /\ Top.at < Top.b
    /\ SplitEnd(Text, Top, Top.at) - Top.at < ChunkSize
    /\ frames' = [frames EXCEPT ![Len(frames)] =
                     [Top EXCEPT !.good = IF Top.good = 0 THEN Top.at ELSE Top.good,
                                 !.at = SplitEnd(Text, Top, Top.at)]]
    /\ UNCHANGED <<page, spc, mergeAt, currentDoc, total, chunks>>
    /\ UNCHANGED <<ingestVars, ragVars, pipeVars, toolVars>>

\* _split_text: _merge_splits(_good_splits) is called, before a split that
\* is not shorter than chunk_size and after the loop.
MergeGoodSplits ==
    /\ spc = "split"
    /\ Top.good # 0
    /\ Top.at = Top.b \/ SplitEnd(Text, Top, Top.at) - Top.at >= ChunkSize
    /\ spc' = "merge"
    /\ mergeAt' = Top.good
    /\ currentDoc' = <<Top.good, Top.good>>
    /\ total' = 0
    /\ UNCHANGED <<page, frames, chunks>>
    /\ UNCHANGED <<ingestVars, ragVars, pipeVars, toolVars>>

\* _split_text: a split that is not shorter than chunk_size is split again
\* with the separators that are left, or appended as it is when none is left.
LongSplit ==
    /\ spc = "split"
    /\ Top.at < Top.b
    /\ Top.good = 0
    /\ SplitEnd(Text, Top, Top.at) - Top.at >= ChunkSize
    /\ LET end == SplitEnd(Text, Top, Top.at)
           caller == [Top EXCEPT !.at = end]
       IN  IF Top.sep = NumSeparators
           THEN /\ chunks' = Append(chunks, <<Top.at, end>>)
                /\ frames' = [frames EXCEPT ![Len(frames)] = caller]
           ELSE /\ frames' = [frames EXCEPT ![Len(frames)] = caller] \o
                                <<Frame(Text, Top.at, end, Top.sep + 1)>>
                /\ UNCHANGED chunks
    /\ UNCHANGED <<page, spc, mergeAt, currentDoc, total>>
    /\ UNCHANGED <<ingestVars, ragVars, pipeVars, toolVars>>

\* _split_text returns; split_text returns when it was the outermost call.
ReturnChunks ==
    /\ spc = "split"
    /\ Top.at = Top.b
    /\ Top.good = 0
    /\ frames' = SubSeq(frames, 1, Len(frames) - 1)
    /\ spc' = IF Len(frames) = 1 THEN "done" ELSE "split"
    /\ UNCHANGED <<page, mergeAt, currentDoc, total, chunks>>
    /\ UNCHANGED <<ingestVars, ragVars, pipeVars, toolVars>>

\* _merge_splits, one pass of the loop over splits: when the split d does
\* not fit, current_doc is emitted as a chunk and splits are dropped from its
\* front; then d is appended.
MergeSplit ==
    /\ spc = "merge"
    /\ mergeAt < Top.at
    /\ LET end == SplitEnd(Text, Top, mergeAt)
           len == end - mergeAt
           from == AfterPops(Text, Top, currentDoc, len)
       IN  /\ mergeAt' = end
           /\ IF Exceeds(total, len) /\ currentDoc[1] < currentDoc[2]
              THEN /\ chunks' = WithJoined(Text, chunks, currentDoc)
                   /\ currentDoc' = <<from, end>>
                   /\ total' = (currentDoc[2] - from) + len
              ELSE /\ currentDoc' = <<currentDoc[1], end>>
                   /\ total' = total + len
                   /\ UNCHANGED chunks
    /\ UNCHANGED <<page, spc, frames>>
    /\ UNCHANGED <<ingestVars, ragVars, pipeVars, toolVars>>

\* _merge_splits, after the loop: what is left in current_doc is the last
\* chunk; _split_text empties _good_splits.
MergeReturn ==
    /\ spc = "merge"
    /\ mergeAt = Top.at
    /\ chunks' = WithJoined(Text, chunks, currentDoc)
    /\ frames' = [frames EXCEPT ![Len(frames)] = [Top EXCEPT !.good = 0]]
    /\ spc' = "split"
    /\ UNCHANGED <<page, mergeAt, currentDoc, total>>
    /\ UNCHANGED <<ingestVars, ragVars, pipeVars, toolVars>>

Split ==
    \/ SplitText
    \/ GoodSplit
    \/ MergeGoodSplits
    \/ LongSplit
    \/ ReturnChunks
    \/ MergeSplit
    \/ MergeReturn

\* ------------------------------------------------------ the tool functions
\* Python's s[:n], also for negative n.
Take(s, n) ==
    IF n >= 0 THEN SubSeq(s, 1, Min(n, Len(s)))
    ELSE SubSeq(s, 1, IF Len(s) + n > 0 THEN Len(s) + n ELSE 0)

\* A Python string: a text with the values formatted into it.  (Python's None
\* is the record None.)
Msg(text, args) == [str |-> text, args |-> args]
S(text) == Msg(text, <<>>)

\* NUMISTA_API_KEY as os.getenv returns it: unset, empty, or a key.
ApiKeys == {None, S(""), S("key")}

\* Page titles and search terms the tools are called with.
WikiTitles == {"Morgan dollar", "Mercury"}

\* str(e) of an exception the handlers do not name; an exception raised
\* without arguments has the empty string.
Messages == {S(""), S("timed out")}

\* e.options of a DisambiguationError.
OptionLists == {[i \in 1..n |-> <<"Mercury", i>>] : n \in {2, 12}}

\* What a call into the wikipedia package can raise.
WikiErrors ==
    {[kind |-> "DisambiguationError", options |-> o] : o \in OptionLists}
        \cup {[kind |-> "PageError"]}
        \cup {[kind |-> "Exception", message |-> m] : m \in Messages}

Ok(value) == [kind |-> "ok", value |-> value]

\* str(e)
Str(e) ==
    CASE e.kind = "Exception" -> e.message
      [] e.kind = "PageError" -> S("Page id does not match any pages. Try another id!")
      [] OTHER -> Msg("may refer to: ", <<e.options>>)

\* A call made to a collaborator, with what it returned or raised.
LibCall(name, arg, out) == [call |-> name, arg |-> arg, out |-> out]

\* wiki.py 17-22: the module is imported with or without the wikipedia
\* package; the process has some NUMISTA_API_KEY.
StartTools ==
    /\ toolEnv = None
    /\ \E installed \in BOOLEAN, key \in ApiKeys :
          toolEnv' = [wikipedia |-> installed, apiKey |-> key]
    /\ UNCHANGED <<toolCall, toolResult, toolLog>>
    /\ UNCHANGED <<ragAgentVars, pipeVars>>

\* What wikipedia.search returns: titles, the best match first.
SearchTitles == <<"Morgan dollar", "Peace dollar", "Dollar coin">>

\* The result lists of one search: up to three titles.
SearchLists ==
    {<<>>} \cup {<<SearchTitles[i]>> : i \in 1..3}
        \cup {<<SearchTitles[i], SearchTitles[j]>> : i, j \in 1..3}
        \cup {<<SearchTitles[i], SearchTitles[j], SearchTitles[i]>> : i, j \in 1..3}

SearchOutcomes == {Ok(l) : l \in SearchLists} \cup WikiErrors

\* wiki.py 29-84
SearchWikipediaCoinsResult(installed, query, out) ==
    IF ~installed
    THEN [success |-> FALSE, error |-> S("Wikipedia package not installed"),
          query |-> query, results |-> <<>>, count |-> 0]
    ELSE IF out.kind = "ok"
    THEN [success |-> TRUE, query |-> query, results |-> out.value,
          count |-> Len(out.value), error |-> None]
    ELSE [success |-> FALSE, query |-> query, results |-> <<>>, count |-> 0,
          error |-> Str(out)]

SearchWikipediaCoins ==
    /\ toolEnv # None /\ toolCall = None
    /\ \E query \in WikiTitles, out \in SearchOutcomes :
          /\ toolCall' = [tool |-> "search_wikipedia_coins", query |-> query, results |-> 10]
          /\ toolResult' = SearchWikipediaCoinsResult(toolEnv.wikipedia, query, out)
          /\ toolLog' = IF toolEnv.wikipedia
                        THEN <<LibCall("wikipedia.search", query, out)>> ELSE <<>>
    /\ UNCHANGED toolEnv
    /\ UNCHANGED <<ragAgentVars, pipeVars>>

\* What wikipedia.summary returns or raises.
SummaryOutcomes == {Ok(S("summary text"))} \cup WikiErrors

\* wiki.py 87-160
GetWikipediaCoinSummaryResult(installed, title, sentences, out) ==
    IF ~installed
    THEN [success |-> FALSE, error |-> S("Wikipedia package not installed"),
          title |-> title, summary |-> None]
    ELSE IF out.kind = "ok"
    THEN [success |-> TRUE, title |-> title, summary |-> out.value, sentences |-> sentences,
          disambiguation_options |-> None, error |-> None]
    ELSE IF out.kind = "DisambiguationError"
    THEN [success |-> FALSE, title |-> title, summary |-> None, sentences |-> sentences,
          disambiguation_options |-> Take(out.options, 10),
          error |-> Msg("Ambiguous search. Multiple pages found. Please specify one of: ",
                        <<Take(out.options, 5)>>)]
    ELSE IF out.kind = "PageError"
    THEN [success |-> FALSE, title |-> title, summary |-> None, sentences |-> sentences,
          disambiguation_options |-> None, error |-> Msg("Page not found: ", <<title>>)]
    ELSE [success |-> FALSE, title |-> title, summary |-> None, sentences |-> sentences,
          disambiguation_options |-> None, error |-> Str(out)]

GetWikipediaCoinSummary ==
    /\ toolEnv # None /\ toolCall = None
    /\ \E title \in WikiTitles, out \in SummaryOutcomes :
          /\ toolCall' = [tool |-> "get_wikipedia_coin_summary", page_title |-> title, sentences |-> 5]
          /\ toolResult' = GetWikipediaCoinSummaryResult(toolEnv.wikipedia, title, 5, out)
          /\ toolLog' = IF toolEnv.wikipedia
                        THEN <<LibCall("wikipedia.summary", title, out)>> ELSE <<>>
    /\ UNCHANGED toolEnv
    /\ UNCHANGED <<ragAgentVars, pipeVars>>

\* Pages wikipedia.page can return: one with more images, references and
\* links than the tools pass on, one with none.
WikiPages ==
    {[title |-> "Morgan dollar", url |-> S("https://en.wikipedia.org/wiki/Morgan_dollar"),
      content |-> S("content"), summary |-> S("summary"),
      images |-> [i \in 1..12 |-> <<"image", i>>],
      references |-> [i \in 1..22 |-> <<"reference", i>>],
      links |-> [i \in 1..52 |-> <<"link", i>>],
      categories |-> <<"Dollar coins">>],
     [title |-> "Mercury dime", url |-> S("https://en.wikipedia.org/wiki/Mercury_dime"),
      content |-> S("content"), summary |-> S("summary"),
      images |-> <<>>, references |-> <<>>, links |-> <<>>, categories |-> <<>>]}

PageOutcomes == {Ok(p) : p \in WikiPages} \cup WikiErrors

\* wiki.py 163-250
GetWikipediaCoinFullDetailsResult(installed, title, out) ==
    IF ~installed
    THEN [success |-> FALSE, error |-> S("Wikipedia package not installed"), title |-> title]
    ELSE IF out.kind = "ok"
    THEN [success |-> TRUE, title |-> out.value.title, url |-> out.value.url,
          content |-> out.value.content, summary |-> out.value.summary,
          images |-> Take(out.value.images, 10),
          references |-> Take(out.value.references, 20),
          links |-> Take(out.value.links, 50),
          categories |-> out.value.categories, error |-> None]
    ELSE [success |-> FALSE, title |-> title, url |-> None, content |-> None, summary |-> None,
          images |-> <<>>, references |-> <<>>, links |-> <<>>, categories |-> <<>>,
          error |-> CASE out.kind = "DisambiguationError" ->
                            Msg("Ambiguous page. Options: ", <<Take(out.options, 5)>>)
                      [] out.kind = "PageError" -> Msg("Page not found: ", <<title>>)
                      [] OTHER -> Str(out)]

GetWikipediaCoinFullDetails ==
    /\ toolEnv # None /\ toolCall = None
    /\ \E title \in WikiTitles, out \in PageOutcomes :
          /\ toolCall' = [tool |-> "get_wikipedia_coin_full_details", page_title |-> title]
          /\ toolResult' = GetWikipediaCoinFullDetailsResult(toolEnv.wikipedia, title, out)
          /\ toolLog' = IF toolEnv.wikipedia
                        THEN <<LibCall("wikipedia.page", title, out)>> ELSE <<>>
    /\ UNCHANGED toolEnv
    /\ UNCHANGED <<ragAgentVars, pipeVars>>

\* wiki.py 253-308
GetWikipediaCoinImagesResult(installed, title, maxImages, out) ==
    IF ~installed
    THEN [success |-> FALSE, error |-> S("Wikipedia package not installed"),
          title |-> title, images |-> <<>>]
    ELSE IF out.kind = "ok"
    THEN [success |-> TRUE, title |-> out.value.title,
          images |-> Take(out.value.images, maxImages),
          count |-> Len(Take(out.value.images, maxImages)), error |-> None]
    ELSE [success |-> FALSE, title |-> title, images |-> <<>>, count |-> 0, error |-> Str(out)]

GetWikipediaCoinImages ==
    /\ toolEnv # None /\ toolCall = None
    /\ \E title \in WikiTitles, maxImages \in {0, 5}, out \in PageOutcomes :
          /\ toolCall' = [tool |-> "get_wikipedia_coin_images", page_title |-> title,
                          max_images |-> maxImages]
          /\ toolResult' = GetWikipediaCoinImagesResult(toolEnv.wikipedia, title, maxImages, out)
          /\ toolLog' = IF toolEnv.wikipedia
                        THEN <<LibCall("wikipedia.page", title, out)>> ELSE <<>>
    /\ UNCHANGED toolEnv
    /\ UNCHANGED <<ragAgentVars, pipeVars>>

\* numismatic_keywords, as characters.
NumismaticKeywords ==
    << <<"c", "o", "i", "n">>,
       <<"c", "u", "r", "r", "e", "n", "c", "y">>,
       <<"d", "o", "l", "l", "a", "r">>,
       <<"c", "e", "n", "t">>,
       <<"p", "e", "n", "n", "y">>,
       <<"n", "i", "c", "k", "e", "l">>,
       <<"d", "i", "m", "e">>,
       <<"q", "u", "a", "r", "t", "e", "r">>,
       <<"m", "i", "n", "t">>,
       <<"n", "u", "m", "i", "s", "m", "a", "t", "i", "c">>,
       <<"b", "u", "l", "l", "i", "o", "n">>,
       <<"e", "a", "g", "l", "e">>,
       <<"s", "o", "v", "e", "r", "e", "i", "g", "n">>,
       <<"f", "r", "a", "n", "c">>,
       <<"m", "a", "r", "k">>,
       <<"p", "o", "u", "n", "d">>,
       <<"y", "e", "n">>,
       <<"p", "e", "s", "o">>,
       <<"r", "u", "p", "e", "e">>,
       <<"d", "i", "n", "a", "r">>,
       <<"s", "h", "e", "k", "e", "l">>,
       <<"d", "e", "n", "a", "r", "i", "u", "s">>,
       <<"g", "o", "l", "d">>,
       <<"s", "i", "l", "v", "e", "r">>,
       <<"b", "r", "o", "n", "z", "e">>,
       <<"c", "o", "p", "p", "e", "r">> >>

\* page.links of the pages get_wikipedia_related_coins is called on: the
\* titles below, some left out, in this order.
LinkTitles == <<"Art", "Century", "Coinage Act", "DIME", "Gold", "Paris", "Penny", "Silver">>

\* The characters of those titles.
TitleChars(link) ==
    CASE link = "Art" -> <<"A", "r", "t">>
      [] link = "Century" -> <<"C", "e", "n", "t", "u", "r", "y">>
      [] link = "Coinage Act" -> <<"C", "o", "i", "n", "a", "g", "e", " ", "A", "c", "t">>
      [] link = "DIME" -> <<"D", "I", "M", "E">>
      [] link = "Gold" -> <<"G", "o", "l", "d">>
      [] link = "Paris" -> <<"P", "a", "r", "i", "s">>
      [] link = "Penny" -> <<"P", "e", "n", "n", "y">>
      [] OTHER -> <<"S", "i", "l", "v", "e", "r">>

\* sub in s
Contains(s, sub) ==
    \E i \in 1..(Len(s) - Len(sub) + 1) : SubSeq(s, i, i + Len(sub) - 1) = sub

\* any(keyword in link.lower() for keyword in numismatic_keywords)
IsNumismatic(link) ==
    \E k \in DOMAIN NumismaticKeywords : Contains(Lower(TitleChars(link)), NumismaticKeywords[k])

\* The most links asked for.
MaxLinks == 7

\* A selection that never falls back to the unfiltered links.
RelatedTopicsFilteredOnly(links, maxLinks) == Take(SelectSeq(links, IsNumismatic), maxLinks)

\* wiki.py 362-371: the links with a keyword when there are 5 or more of
\* them, else all links; the first max_links of those.
RelatedTopics(links, maxLinks) ==
    IF Len(SelectSeq(links, IsNumismatic)) < 5
    THEN Take(links, maxLinks)
    ELSE Take(SelectSeq(links, IsNumismatic), maxLinks)

\* The titles with at most two left out, and the page without links.
LinkLists ==
    {SelectSeq(LinkTitles, LAMBDA t : t \in T) :
        T \in {U \in SUBSET SeqToSet(LinkTitles) : Cardinality(U) \in {0, 6, 7, 8}}}

RelatedOutcomes ==
    {Ok([title |-> "Morgan dollar", links |-> l]) : l \in LinkLists} \cup WikiErrors

\* wiki.py 311-387
GetWikipediaRelatedCoinsResult(installed, title, maxLinks, out) ==
    IF ~installed
    THEN [success |-> FALSE, error |-> S("Wikipedia package not installed"),
          title |-> title, related_topics |-> <<>>]
    ELSE IF out.kind = "ok"
    THEN [success |-> TRUE, title |-> out.value.title,
          related_topics |-> RelatedTopics(out.value.links, maxLinks),
          count |-> Len(RelatedTopics(out.value.links, maxLinks)), error |-> None]
    ELSE [success |-> FALSE, title |-> title, related_topics |-> <<>>, count |-> 0,
          error |-> Str(out)]

GetWikipediaRelatedCoins ==
    /\ toolEnv # None /\ toolCall = None
    /\ \E title \in {"Morgan dollar"}, maxLinks \in -1..MaxLinks, out \in RelatedOutcomes :
          /\ toolCall' = [tool |-> "get_wikipedia_related_coins", page_title |-> title,
                          max_links |-> maxLinks]
          /\ toolResult' = GetWikipediaRelatedCoinsResult(toolEnv.wikipedia, title, maxLinks, out)
          /\ toolLog' = IF toolEnv.wikipedia
                        THEN <<LibCall("wikipedia.page", title, out)>> ELSE <<>>
    /\ UNCHANGED toolEnv
    /\ UNCHANGED <<ragAgentVars, pipeVars>>

\* dict.get(key)
Get(d, key) == IF key \in DOMAIN d THEN d[key] ELSE None

\* A comparison that succeeds only when both summaries did.
CompareWikipediaCoinsResultStrict(coin1, coin2, summary1, summary2) ==
    [success |-> summary1.success /\ summary2.success,
     coin1 |-> [title |-> coin1, summary |-> Get(summary1, "summary"),
                success |-> Get(summary1, "success")],
     coin2 |-> [title |-> coin2, summary |-> Get(summary2, "summary"),
                success |-> Get(summary2, "success")],
     error |-> None]

\* wiki.py 418-431: the result built from the two summaries.
CompareWikipediaCoinsResult(coin1, coin2, summary1, summary2) ==
    [success |-> TRUE,
     coin1 |-> [title |-> coin1, summary |-> Get(summary1, "summary"),
                success |-> Get(summary1, "success")],
     coin2 |-> [title |-> coin2, summary |-> Get(summary2, "summary"),
                success |-> Get(summary2, "success")],
     error |-> None]

\* The calls get_wikipedia_coin_summary makes and its return, as log entries.
SummaryCalls(installed, title, out) ==
    (IF installed THEN <<LibCall("wikipedia.summary", title, out)>> ELSE <<>>)
        \o <<LibCall("get_wikipedia_coin_summary", title,
                     GetWikipediaCoinSummaryResult(installed, title, 4, out))>>

\* wiki.py 390-438: the summary of coin1 is awaited, then the summary of
\* coin2; get_wikipedia_coin_summary returns in every case, so the except
\* branch is not taken.
CompareWikipediaCoins ==
    /\ toolEnv # None /\ toolCall = None
    /\ \E coin1, coin2 \in WikiTitles, out1, out2 \in SummaryOutcomes :
          /\ toolCall' = [tool |-> "compare_wikipedia_coins", coin1 |-> coin1, coin2 |-> coin2]
          /\ toolResult' = CompareWikipediaCoinsResult(coin1, coin2,
                               GetWikipediaCoinSummaryResult(toolEnv.wikipedia, coin1, 4, out1),
                               GetWikipediaCoinSummaryResult(toolEnv.wikipedia, coin2, 4, out2))
          /\ toolLog' = SummaryCalls(toolEnv.wikipedia, coin1, out1)
                            \o SummaryCalls(toolEnv.wikipedia, coin2, out2)
    /\ UNCHANGED toolEnv
    /\ UNCHANGED <<ragAgentVars, pipeVars>>

\* queries = [f"{country} coins", f"{country} currency", f"{country} numismatics"]
Queries(country) ==
    <<Msg("{country} coins", <<country>>), Msg("{country} currency", <<country>>),
      Msg("{country} numismatics", <<country>>)>>

RECURSIVE Concat(_)
Concat(lists) == IF lists = <<>> THEN <<>> ELSE Head(lists) \o Concat(Tail(lists))

\* A removal of duplicates that keeps the last occurrence of each title.
RECURSIVE UniqueLast(_)
UniqueLast(s) ==
    IF s = <<>> THEN <<>>
    ELSE IF \E i \in 2..Len(s) : s[i] = s[1] THEN UniqueLast(Tail(s))
    ELSE <<s[1]>> \o UniqueLast(Tail(s))

\* list(dict.fromkeys(all_results)): each title once, at its first place.
RECURSIVE Unique(_)
Unique(s) ==
    IF s = <<>> THEN <<>>
    ELSE LET front == SubSeq(s, 1, Len(s) - 1)
             last == s[Len(s)]
         IN  IF \E i \in DOMAIN front : front[i] = last THEN Unique(front)
             ELSE Unique(front) \o <<last>>

\* The searches of the loop that are made: up to the first that raises.
Made(outs) ==
    IF \E i \in DOMAIN outs : outs[i].kind # "ok"
    THEN SubSeq(outs, 1, CHOOSE i \in DOMAIN outs :
                            outs[i].kind # "ok" /\ \A j \in 1..(i - 1) : outs[j].kind = "ok")
    ELSE outs

\* wiki.py 441-505; outs: what the searches return or raise, in order.
GetWikipediaCoinsByCountryResult(installed, country, outs) ==
    IF ~installed
    THEN [success |-> FALSE, error |-> S("Wikipedia package not installed"),
          country |-> country, search_results |-> <<>>]
    ELSE IF \A i \in DOMAIN outs : outs[i].kind = "ok"
    THEN [success |-> TRUE, country |-> country,
          search_results |-> Unique(Concat([i \in DOMAIN outs |-> outs[i].value])),
          count |-> Len(Unique(Concat([i \in DOMAIN outs |-> outs[i].value]))),
          error |-> None]
    ELSE [success |-> FALSE, country |-> country, search_results |-> <<>>, count |-> 0,
          error |-> Str(Made(outs)[Len(Made(outs))])]

\* What one of the three searches returns (up to two titles) or raises.
CountrySearchOutcomes ==
    {Ok(l) : l \in {l \in SearchLists : Len(l) <= 2}}
        \cup {[kind |-> "Exception", message |-> m] : m \in Messages}

GetWikipediaCoinsByCountry ==
    /\ toolEnv # None /\ toolCall = None
    /\ \E country \in {"India"}, outs \in [1..3 -> CountrySearchOutcomes] :
          /\ toolCall' = [tool |-> "get_wikipedia_coins_by_country", country |-> country]
          /\ toolResult' = GetWikipediaCoinsByCountryResult(toolEnv.wikipedia, country, outs)
          /\ toolLog' = IF toolEnv.wikipedia
                        THEN [i \in DOMAIN Made(outs) |->
                                 LibCall("wikipedia.search", Queries(country)[i], outs[i])]
                        ELSE <<>>
    /\ UNCHANGED toolEnv
    /\ UNCHANGED <<ragAgentVars, pipeVars>>

\* A key test that lets the empty key through.
NotOnlyNone(value) == value = None

\* not api_key: the variable is unset or empty.
Not(value) == value \in {None, S("")}

\* What client.get(...) followed by response.json() can do: a response with a
\* status and a body that is JSON or not, or an exception of the transport.
HttpResponses ==
    {[kind |-> "response", status |-> code, json |-> j] : code \in {200, 404, 500}, j \in BOOLEAN}

HttpOutcomes == HttpResponses \cup {[kind |-> "Exception", message |-> m] : m \in Messages}

\* response.raise_for_status() raises HTTPStatusError.
RaisesForStatus(out) == out.kind = "response" /\ out.status >= 400

\* The request fails: the transport raises, the status is an error, or the
\* body of the response is not JSON.
Fails(out) == out.kind = "Exception" \/ RaisesForStatus(out) \/ ~out.json

\* str(e) of what the request raised.
HttpStr(out) ==
    CASE out.kind = "Exception" -> out.message
      [] RaisesForStatus(out) -> Msg("Client or server error '{status}' for url", <<out.status>>)
      [] OTHER -> S("Expecting value: line 1 column 1 (char 0)")

\* The programs that define search_numista_coins.
Programs == {"lp_agent1", "wiki"}

\* lp_agent1/agent.py 12-90 and wiki.py 593-671
SearchNumistaCoinsResult(program, apiKey, query, out) ==
    IF Not(apiKey)
    THEN [status |-> "error",
          message |-> S("NUMISTA_API_KEY not configured. Get one at https://en.numista.com/api/"),
          fallback |-> IF program = "wiki"
                       THEN S("Use Wikipedia for historical information instead.")
                       ELSE S("Use Wikipedia and Google Search for historical information instead.")]
    ELSE IF RaisesForStatus(out)
    THEN [status |-> "error", message |-> Msg("Numista API error: {status}", <<out.status>>)]
    ELSE IF Fails(out)
    THEN [status |-> "error", message |-> HttpStr(out)]
    ELSE [status |-> "success", total_found |-> 1, coins |-> <<"coin">>,
          note |-> S("Use get_coin_details with numista_id for full specifications")]

\* lp_agent1/agent.py 93-164
GetCoinDetailsResult(apiKey, coinId, out) ==
    IF Not(apiKey)
    THEN [status |-> "error", message |-> S("NUMISTA_API_KEY not configured")]
    ELSE IF Fails(out)
    THEN [status |-> "error", message |-> HttpStr(out)]
    ELSE [status |-> "success", coin |-> [numista_id |-> coinId]]

\* lp_agent1/agent.py 167-206
GetCoinPricingResult(apiKey, coinId, out) ==
    IF Not(apiKey)
    THEN [status |-> "error", message |-> S("NUMISTA_API_KEY not configured")]
    ELSE IF RaisesForStatus(out) /\ out.status = 404
    THEN [status |-> "info", message |-> S("No pricing data available for this coin")]
    ELSE IF Fails(out)
    THEN [status |-> "error", message |-> HttpStr(out)]
    ELSE [status |-> "success", pricing |-> S("data"),
          note |-> S("Prices are estimates; actual market values may vary")]

\* The requests of one call of a Numista tool: none without a key, else one.
Requests(apiKey, url, out) ==
    IF Not(apiKey) THEN <<>> ELSE <<LibCall("httpx.get", url, out)>>

SearchNumistaCoins ==
    /\ toolEnv # None /\ toolCall = None
    /\ \E program \in Programs, query \in {"Morgan dollar"}, out \in HttpOutcomes :
          /\ toolCall' = [tool |-> "search_numista_coins", program |-> program, query |-> query]
          /\ toolResult' = SearchNumistaCoinsResult(program, toolEnv.apiKey, query, out)
          /\ toolLog' = Requests(toolEnv.apiKey, "https://api.numista.com/v3/types", out)
    /\ UNCHANGED toolEnv
    /\ UNCHANGED <<ragAgentVars, pipeVars>>

GetCoinDetails ==
    /\ toolEnv # None /\ toolCall = None
    /\ \E coinId \in {1}, out \in HttpOutcomes :
          /\ toolCall' = [tool |-> "get_coin_details", coin_id |-> coinId]
          /\ toolResult' = GetCoinDetailsResult(toolEnv.apiKey, coinId, out)
          /\ toolLog' = Requests(toolEnv.apiKey, "https://api.numista.com/v3/types/{coin_id}", out)
    /\ UNCHANGED toolEnv
    /\ UNCHANGED <<ragAgentVars, pipeVars>>

GetCoinPricing ==
    /\ toolEnv # None /\ toolCall = None
    /\ \E coinId \in {1}, out \in HttpOutcomes :
          /\ toolCall' = [tool |-> "get_coin_pricing", coin_id |-> coinId]
          /\ toolResult' = GetCoinPricingResult(toolEnv.apiKey, coinId, out)
          /\ toolLog' = Requests(toolEnv.apiKey,
                                 "https://api.numista.com/v3/types/{coin_id}/prices", out)
    /\ UNCHANGED toolEnv
    /\ UNCHANGED <<ragAgentVars, pipeVars>>

\* The agent that called the tool has its result; it can call the next one.
ToolReturns ==
    /\ toolCall # None
    /\ toolCall' = None /\ toolResult' = None /\ toolLog' = <<>>
    /\ UNCHANGED toolEnv
    /\ UNCHANGED <<ragAgentVars, pipeVars>>

\* The tool functions, each called at any time by an agent.
ToolFunctions ==
    \/ StartTools
    \/ ToolReturns
    \/ SearchWikipediaCoins
    \/ GetWikipediaCoinSummary
    \/ GetWikipediaCoinFullDetails
    \/ GetWikipediaCoinImages
    \/ GetWikipediaRelatedCoins
    \/ CompareWikipediaCoins
    \/ GetWikipediaCoinsByCountry
    \/ SearchNumistaCoins
    \/ GetCoinDetails
    \/ GetCoinPricing

NextTools == ToolFunctions

SpecTools == Init /\ [][NextTools]_vars

Next ==
    \/ \E r \in Runs : Ingest(r)
    \/ BuildRagChain
    \/ \E c \in Calls : RagTool(c)
    \/ Pipeline
    \/ Split
    \/ ToolFunctions

Spec == Init /\ [][Next]_vars

\* One invocation of the pipeline, nothing else running.
NextPipeline == Pipeline

SpecPipeline == Init /\ [][NextPipeline]_vars

\* One call of split_text, nothing else running.
NextSplit == Split

SpecSplit == Init /\ [][NextSplit]_vars

\* Ingestion jobs only: ingest_data started up to MaxRuns times, in sequence
\* or overlapping, with no agent process running.
NextIngest == \E r \in Runs : Ingest(r)

SpecIngest == Init /\ [][NextIngest]_vars

\* The answering agent next to one ingestion job.
NextServe ==
    \/ Ingest(1)
    \/ BuildRagChain
    \/ \E c \in Calls : RagTool(c)

SpecServe == Init /\ [][NextServe]_vars

\* ----------------------------------------------------------------- properties
\* All the points a run that inserts every chunk of docs[r] writes.
RunPoints(r) == {Point(r, i, docs[r][i]) : i \in 1..Len(docs[r])}

Destructive(log) == \E i \in DOMAIN log : log[i] \in {"delete", "create"}

Finished(r) == pc[r] \in {"done", "failed"}

\* The number of points of pts whose payload is text.
Copies(pts, text) == Cardinality({x \in pts : x.text = text})

SamePayloads(pts1, pts2) ==
    \A i \in DOMAIN Texts : Copies(pts1, Texts[i]) = Copies(pts2, Texts[i])

\* C1: a run whose text extraction failed has issued no call on the vector
\* store at all, so neither delete-collection nor create-collection, and the
\* step in which it fails leaves the collection as it was.
C1_ExtractionFailureBeforeMutation ==
    /\ [](\A r \in Runs : failure[r] = "extract" => pc[r] = "failed" /\ storeLog[r] = <<>>)
    /\ [][\A r \in Runs :
            failure[r] # "extract" /\ failure'[r] = "extract" => collection' = collection]_vars

\* C1 witness: extraction failed in a run and the collection of the earlier
\* ingestion is still there in full.
C1_Witness ==
    \E r \in Runs :
        /\ failure[r] = "extract"
        /\ \A x \in Runs : storeLog[x] = <<>>
        /\ collection = OldCollection

\* C2 as claimed: a run that failed while embedding has issued neither
\* delete-collection nor create-collection.
C2_EmbeddingFailureBeforeMutation ==
    \A r \in Runs : failure[r] = "embed" => ~Destructive(storeLog[r])

\* C3 as claimed: with no eligible document in the directory a started run
\* fails, issues no call on the store and reports no count.
C3_NoDocumentsFails ==
    Eligible(Entries) = {} =>
        \A r \in Runs :
            /\ pc[r] \in {"idle", "failed"}
            /\ storeLog[r] = <<>>
            /\ reported[r] = -1

\* The chunk sequences ingest_data can build from the directory as it is.
CorpusChunkings == {LoadAndSplit(listing) : listing \in Listings(Entries)}

\* C4: when a run that ran alone has printed its count, the collection
\* holds one point per chunk of the corpus, all written by that run and
\* none by an earlier one, under the configuration of create_collection.
C4_OnlyFreshRecords ==
    \A r \in Runs :
        pc[r] = "done" /\ alone[r] =>
            /\ docs[r] \in CorpusChunkings
            /\ afterRun[r] = [NewCollection EXCEPT !.points = RunPoints(r)]
            /\ Cardinality(afterRun[r].points) = Len(docs[r])

\* C4 witness: a run finished alone on the five-chunk corpus after having
\* deleted a collection that existed.
C4_Witness ==
    \E r \in Runs :
        /\ pc[r] = "done" /\ alone[r]
        /\ Len(docs[r]) = 5
        /\ \E i \in DOMAIN storeLog[r] : storeLog[r][i] = "delete"

\* C5: two runs executed one after the other leave the same payloads, each
\* as often, and every probe question gets the same texts in the same order
\* from the collection after the first as after the second.
C5_SequentialRunsIdempotent ==
    \A r1, r2 \in Runs :
        pc[r1] = "done" /\ pc[r2] = "done" /\ alone[r1] /\ alone[r2] =>
            /\ SamePayloads(afterRun[r1].points, afterRun[r2].points)
            /\ \A q \in Questions :
                  TextsOf(SimilaritySearch(Embed(q), afterRun[r1].points, K))
                    = TextsOf(SimilaritySearch(Embed(q), afterRun[r2].points, K))

\* C5 witness: two runs in sequence that listed the directory in different
\* orders, each writing all five chunks.
C5_Witness ==
    /\ pc[1] = "done" /\ pc[2] = "done" /\ alone[1] /\ alone[2]
    /\ Len(docs[1]) = 5
    /\ docs[1] # docs[2]

LastRun == CHOOSE r \in Runs : \A x \in Runs : x <= r

\* The collection is absent or all its points were written by one run.
SingleRunContent ==
    collection.exists => \E r \in 0..MaxRuns : \A x \in collection.points : x.run = r

\* C7, the serialized half: as long as no two runs overlapped, no run fails
\* on a store call, the collection holds points of one run only, and once
\* every run has printed its count it holds exactly the last run's points.
C7_SerializedRunsSingleContent ==
    (\A r \in Runs : alone[r]) =>
        /\ \A r \in Runs : failure[r] # "store"
        /\ SingleRunContent
        /\ (\A r \in Runs : pc[r] = "done") => collection.points = RunPoints(LastRun)

\* C7 witness, the interleaved half: two overlapping runs have both printed
\* their count and the collection holds the chunks of both.
C7_Witness ==
    /\ pc[1] = "done" /\ pc[2] = "done"
    /\ ~alone[1] /\ ~alone[2]
    /\ Len(docs[1]) = 5
    /\ collection.points = RunPoints(1) \cup RunPoints(2)

\* What the search of call c saw.
Seen(c) == observed[c].points

Searched(c) == observed[c] # None

\* C6 as claimed: whatever an answer call's search sees next to an ingestion
\* run is the complete old content or the complete new content.
C6_ReaderSeesOldOrNew ==
    \A c \in Calls :
        Searched(c) => Seen(c) = OldPoints \/ (pc[1] # "idle" /\ Seen(c) = RunPoints(1))

\* Run 1 has not yet issued its delete-collection call, or has inserted its
\* last chunk.
OutsideRebuild ==
    \/ pc[1] \in {"idle", "exists", "delete", "done"}
    \/ failure[1] = "extract"
    \/ pc[1] = "add" /\ next[1] > Len(docs[1])

\* C6 amended: a search issued before the run's delete-collection call or
\* after its last insert sees the complete old or the complete new content.
C6_ReaderOutsideRebuildSeesOldOrNew ==
    [][\A c \in Calls :
          ~Searched(c) /\ Searched(c)' /\ OutsideRebuild =>
              \/ Seen(c)' = OldPoints /\ "create" \notin SeqToSet(storeLog[1])
              \/ Seen(c)' = RunPoints(1) /\ "create" \in SeqToSet(storeLog[1])]_vars

\* C6 witness: a search made between the last insert of a five-chunk run and
\* its print, seeing all five chunks.
C6_Witness ==
    \E c \in Calls :
        /\ Searched(c)
        /\ Len(docs[1]) = 5
        /\ Seen(c) = RunPoints(1)
        /\ pc[1] = "add"

\* C8: a step of the answering agent (building the chain, or any step of a
\* call) leaves the collection, points and configuration, as it is; and what
\* a call retrieved is the search of its own question over what it saw.
C8_AnswerCallsReadOnly ==
    /\ [][chain' # chain \/ cpc' # cpc => collection' = collection]_vars
    /\ [](\A c \in Calls :
            Searched(c) =>
                retrieved[c] = TextsOf(SimilaritySearch(Embed(question[c]), Seen(c), K)))

\* C8 witness: two calls with different questions have searched the same
\* non-empty collection, one after the other, and it is still as they saw it.
C8_Witness ==
    /\ cpc[1] \in {"generate", "return"} /\ cpc[2] \in {"generate", "return"}
    /\ question[1] # question[2]
    /\ retrieved[1] # retrieved[2]
    /\ observed[1] = collection /\ observed[2] = collection
    /\ collection.points # {}

Similarity(q, text1, text2) == CosGreater(Embed(q), Embed(text1), Embed(text2))

\* C9: a call whose search returned holds min(K, n) texts of the n points it
\* saw; no point left out is more similar to the question than one taken;
\* similarity never increases along the result; and the prompt's context is
\* these texts in this order with a separator between neighbours.
C9_TopKBySimilarity ==
    \A c \in Calls :
        Searched(c) =>
            /\ Len(retrieved[c]) = Min(K, Cardinality(Seen(c)))
            /\ \E taken \in SUBSET Seen(c) :
                  /\ Cardinality(taken) = Len(retrieved[c])
                  /\ \A i \in DOMAIN Texts :
                        Copies(taken, Texts[i])
                          = Cardinality({j \in DOMAIN retrieved[c] : retrieved[c][j] = Texts[i]})
                  /\ \A x \in taken, y \in Seen(c) \ taken :
                        ~Similarity(question[c], y.text, x.text)
            /\ \A i, j \in DOMAIN retrieved[c] :
                  i < j => ~Similarity(question[c], retrieved[c][j], retrieved[c][i])
            /\ prompt[c] # None =>
                  /\ prompt[c].question = question[c]
                  /\ Len(prompt[c].context) =
                        (IF retrieved[c] = <<>> THEN 0 ELSE 2 * Len(retrieved[c]) - 1)
                  /\ \A i \in DOMAIN retrieved[c] : prompt[c].context[2 * i - 1] = retrieved[c][i]

\* C9 witness: a call that saw five points, took four of them, not all equally
\* similar to the question, and has built its prompt.
C9_Witness ==
    \E c \in Calls :
        /\ Searched(c)
        /\ Cardinality(Seen(c)) = 5
        /\ Len(retrieved[c]) = 4
        /\ Similarity(question[c], retrieved[c][1], retrieved[c][4])
        /\ prompt[c] # None

Count(log, what) == Cardinality({i \in DOMAIN log : log[i] = what})

\* C10: a call invokes the generation at most once and only after its search
\* has returned; a call that got a generation output invoked it exactly once;
\* and the answer rag_tool returns is that output, unchanged.
C10_OneGenerationVerbatim ==
    \A c \in Calls :
        /\ Count(callLog[c], "generate") <= 1
        /\ Count(callLog[c], "generate") = 1 => callLog[c] = <<"embed", "search", "generate">>
        /\ cpc[c] \in {"return", "returned"} =>
              /\ Count(callLog[c], "generate") = 1
              /\ output[c] \in GenOutputs
        /\ cpc[c] = "returned" => answer[c] = [status |-> "success", answer |-> output[c]]
        /\ cpc[c] # "returned" => answer[c] = None

\* C10 witness: a call has returned the refusal sentence the generation gave.
C10_Witness ==
    \E c \in Calls :
        /\ cpc[c] = "returned"
        /\ answer[c].answer = "I cannot answer this question"
        /\ callLog[c] = <<"embed", "search", "generate">>

\* The refusal sentence the prompt prescribes (rag.py 32).
Refusal == "I cannot answer this question"

\* C11 as claimed: a call that failed hands its caller an error result, and a
\* call whose generation refused is not reported with the status of a
\* grounded answer.
C11_OutcomesDistinguishable ==
    \A c \in Calls :
        /\ cpc[c] = "raised" => answer[c] # None /\ answer[c].status = "error"
        /\ cpc[c] = "returned" /\ output[c] = Refusal => answer[c].status # "success"

\* The query vectors have not the length of the collection's vectors.
DimensionMismatch == collection.exists /\ collection.size # embedDim

C13_MissingConfigStopsStartup ==
    env # ConfigKeys =>
        /\ \A r \in Runs : pc[r] = "idle" /\ events[r] = <<>> /\ storeLog[r] = <<>>
        /\ \A c \in Calls : cpc[c] = "idle"

IsLoad(e) == e.op = "load"

\* C16 as claimed: the chunker's precondition is enforced, and the chunker is
\* constructed (and so checked) before any document has been loaded.
C16_ChunkerCheckedBeforeLoading ==
    /\ ChunkOverlap >= ChunkSize => ~SplitterConstructs
    /\ \A r \in Runs : \A i \in DOMAIN events[r] :
          events[r][i] = SplitterEvent => \A j \in 1..(i - 1) : ~IsLoad(events[r][j])

\* File names in sorted order.
FileOrder == <<"a.pdf", "b.pdf", "c.PDF", "ingest.py", "notes.txt", "utils.py">>
FileRank(file) == CHOOSE i \in DOMAIN FileOrder : FileOrder[i] = file

Started(r) == pc[r] \notin {"idle", "failed"}

\* C17 as claimed: every run loads the eligible files in sorted order of their
\* names, so two runs on the same directory build the same chunk sequence.
C17_SortedDeterministicOrder ==
    /\ \A r \in Runs : \A i, j \in DOMAIN events[r] :
          i < j /\ IsLoad(events[r][i]) /\ IsLoad(events[r][j]) =>
              FileRank(events[r][i].file) < FileRank(events[r][j].file)
    /\ \A r1, r2 \in Runs : Started(r1) /\ Started(r2) => docs[r1] = docs[r2]

\* C18: a count is printed by a run exactly when it is done; it is the number
\* of chunks of the run, all of them inserted by then, one upsert per batch;
\* and for a run that ran alone it is the number of points in the collection.
C18_ReportedCountIsWritten ==
    \A r \in Runs :
        /\ reported[r] # -1 <=> pc[r] = "done"
        /\ pc[r] = "done" =>
              /\ reported[r] = Len(docs[r])
              /\ next[r] = Len(docs[r]) + 1
              /\ Count(storeLog[r], "upsert") * BatchSize >= reported[r]
              /\ storeLog[r] # <<>> /\ storeLog[r][Len(storeLog[r])] \in {"upsert", "get"}
              /\ alone[r] => Cardinality(afterRun[r].points) = reported[r]

\* C18 witness: a run alone on the five-chunk corpus printed 5 after its
\* upserts.
C18_Witness ==
    \E r \in Runs :
        /\ pc[r] = "done" /\ alone[r]
        /\ reported[r] = 5
        /\ Count(storeLog[r], "upsert") >= 2
        /\ Cardinality(collection.points) = 5

Position(key) == CHOOSE i \in DOMAIN stateWrites : stateWrites[i] = key

Narratives == {"draft_narrative", "verified_narrative", "final_narrative"}

\* C19: in both programs the sub-agents of one invocation start in the order
\* content_creator, content_verifier, content_adjuster, each at most once, and
\* a completed invocation ran all three in a single pass; the verifier reads
\* draft_narrative and the adjuster verified_narrative, each after it was
\* written; each narrative key is written once, in that order, and nothing is
\* written after final_narrative.
C19_ThreeStagesOnceInOrder ==
    /\ Len(started) <= Len(SubAgents) /\ started = SubSeq(SubAgents, 1, Len(started))
    /\ ppc = "done" =>
          /\ started = SubAgents
          /\ pipeline = "loop" => timesLooped = MaxIterations
          /\ stateWrites[Len(stateWrites)] = "final_narrative"
          /\ [i \in DOMAIN reads |-> <<reads[i].agent, reads[i].key>>] =
                <<<<"content_verifier", "draft_narrative">>,
                  <<"content_adjuster", "verified_narrative">>>>
    /\ \A i \in DOMAIN reads : \E j \in 1..reads[i].at : stateWrites[j] = reads[i].key
    /\ \A k \in Narratives : Cardinality({i \in DOMAIN stateWrites : stateWrites[i] = k}) <= 1
    /\ "verified_narrative" \in Written =>
          "draft_narrative" \in Written /\ Position("draft_narrative") < Position("verified_narrative")
    /\ "final_narrative" \in Written =>
          /\ "verified_narrative" \in Written
          /\ Position("verified_narrative") < Position("final_narrative")
          /\ Position("final_narrative") = Len(stateWrites)

\* C19 witness: a completed invocation of the loop pipeline in which creator
\* and verifier called tools.
C19_Witness ==
    /\ pipeline = "loop" /\ ppc = "done"
    /\ CallsOf("content_creator") = 2 /\ CallsOf("content_verifier") = 1
    /\ Len(stateWrites) = 6

\* C20: in the loop pipeline content_adjuster has no tools registered and no
\* tool call is made while it runs: the session state does not change between
\* its start and its final response.
C20_AdjusterCallsNoTool ==
    pipeline = "loop" =>
        /\ Tools(pipeline, "content_adjuster") = {}
        /\ \A i \in DOMAIN toolCalls : toolCalls[i].agent # "content_adjuster"
        /\ Agent = "content_adjuster" /\ ppc = "llm" =>
              stateWrites[Len(stateWrites)] = "verified_narrative"

\* C20 witness: the adjuster of the loop pipeline has finished, after tool
\* calls of the stages before it.
C20_Witness ==
    /\ pipeline = "loop" /\ ppc = "done"
    /\ started[Len(started)] = "content_adjuster"
    /\ Len(toolCalls) = 3

ChunkLen(c) == c[2] - c[1]

ChunkText(c) == SubSeq(Text, c[1], c[2] - 1)

WholeText == <<1, Len(Text) + 1>>

\* C14 as claimed: every chunk is at most chunk_size long, and a text that is
\* at most chunk_size long yields exactly one chunk, which is that text.
C14_ShortTextIsOneChunk ==
    /\ \A i \in DOMAIN chunks : ChunkLen(chunks[i]) <= ChunkSize
    /\ spc = "done" /\ Len(Text) <= ChunkSize =>
          Len(chunks) = 1 /\ ChunkText(chunks[1]) = Text

\* C14 amended: every chunk is at most chunk_size long; a text that is at
\* most chunk_size long yields no chunk when it is empty or whitespace only,
\* and otherwise exactly one chunk, which is the text stripped of the
\* whitespace around it.
C14_ShortTextIsOneStrippedChunk ==
    /\ \A i \in DOMAIN chunks : ChunkLen(chunks[i]) <= ChunkSize
    /\ spc = "done" /\ Len(Text) <= ChunkSize =>
          chunks = WithJoined(Text, <<>>, WholeText)

\* C14 witness: a text of at most chunk_size characters, with whitespace
\* around it, has been split into one chunk shorter than the text; and a
\* chunk of exactly chunk_size characters exists for another text.
C14_Witness ==
    /\ spc = "done"
    /\ Len(Text) <= ChunkSize
    /\ Len(chunks) = 1
    /\ ChunkLen(chunks[1]) < Len(Text)
    /\ ChunkLen(Strip(Pages[4], <<1, Len(Pages[4]) + 1>>)) = ChunkSize

Overlap(i) == chunks[i][2] - chunks[i + 1][1]

ToolCallsOf(agent, tool) ==
    Cardinality({i \in DOMAIN toolCalls : toolCalls[i] = [agent |-> agent, tool |-> tool]})

\* C21 as claimed: in a run of the loop pipeline content_creator calls
\* numista_researcher at most once and google_researcher at most once,
\* content_verifier calls numista_researcher at most once, and the run makes
\* at most 3 research-agent calls.
C21_ToolCallBudget ==
    pipeline = "loop" =>
        /\ ToolCallsOf("content_creator", "numista_researcher") <= 1
        /\ ToolCallsOf("content_creator", "google_researcher") <= 1
        /\ CallsOf("content_verifier") <= 1
        /\ Len(toolCalls) <= 3

IsStoreCall(op) == op \in {"exists", "delete", "create", "upsert"}

\* The existence check, delete, create and insert calls of run r, in order.
StoreCalls(r) == SelectSeq(storeLog[r], IsStoreCall)

Issues(r, op) ==
    /\ Len(storeLog'[r]) = Len(storeLog[r]) + 1
    /\ storeLog'[r][Len(storeLog'[r])] = op

\* C22: the store calls of every run are, in order, one existence check, a
\* delete issued exactly when the check returned true, one create with size
\* 768 and cosine distance, then the inserts; no insert comes before the
\* create and a run that ends well has created the collection once.
C22_StoreCallOrder ==
    /\ [](\A r \in Runs :
            LET ops == StoreCalls(r)
            IN  /\ \A i \in DOMAIN ops :
                      /\ ops[i] = "exists" <=> i = 1
                      /\ ops[i] = "delete" => i = 2
                      /\ ops[i] = "create" => i = 2 \/ (i = 3 /\ ops[2] = "delete")
                      /\ ops[i] = "upsert" => \E j \in 1..(i - 1) : ops[j] = "create"
                /\ pc[r] = "done" => Count(ops, "create") = 1)
    /\ [][\A r \in Runs :
            /\ Issues(r, "exists") =>
                  /\ collection.exists => pc'[r] = "delete"
                  /\ ~collection.exists => pc'[r] = "create"
            /\ Issues(r, "delete") =>
                  pc[r] = "delete" /\ StoreCalls(r) = <<"exists">>
            /\ Issues(r, "create") /\ pc'[r] # "failed" =>
                  /\ collection'.exists /\ collection'.points = {}
                  /\ collection'.size = VectorSize /\ collection'.distance = "Cosine"
            /\ pc[r] = "delete" => Issues(r, "delete") \/ pc'[r] = "delete"]_vars

\* C22 witness: a run found the collection, deleted it, created it and
\* inserted its chunks in three batches.
C22_Witness ==
    \E r \in Runs :
        /\ pc[r] = "done"
        /\ StoreCalls(r) = <<"exists", "delete", "create", "upsert", "upsert", "upsert">>

\* What a reader may find next to the single run 1: no collection, the
\* complete old collection, or a new collection holding none, some or all of
\* the run's chunks.
OldOrNew(col) ==
    \/ ~col.exists
    \/ col.points = OldPoints
    \/ col.points \subseteq RunPoints(1)

\* C23: beside a single ingestion run, the collection is at every moment, and
\* so in every search of a concurrent answer call, one of: absent, the
\* complete old collection, a new collection with none, some or all of the
\* new chunks; it never holds a point of the old run next to a point of the
\* new one.
C23_NeverOldAndNewMixed ==
    /\ OldOrNew(collection)
    /\ \A c \in Calls : Searched(c) => OldOrNew(observed[c])
    /\ ~(collection.exists /\ \E p, q \in collection.points : p.run = 0 /\ q.run # 0)

\* C23 witness: a search issued while the run was inserting saw some but not
\* all of the new chunks, and the collection was the old one at the start.
C23_Witness ==
    \E c \in Calls :
        /\ Searched(c)
        /\ Seen(c) # {} /\ Seen(c) # RunPoints(1) /\ Seen(c) \subseteq RunPoints(1)
        /\ Count(storeLog[1], "delete") = 1

\* The entry names that end with ".pdf", written out.
PdfNames == {"a.pdf", "b.pdf"}

Loaded(r) == {events[r][i].file : i \in {j \in DOMAIN events[r] : IsLoad(events[r][j])}}

\* C24: a run loads an entry of the directory exactly when its name ends with
\* ".pdf" in lower case; an entry without that suffix is never loaded, adds
\* no chunk to the run or to the collection, and a run fails in loading only
\* on an entry with the suffix.
C24_OnlyPdfSuffixLoaded ==
    \A r \in Runs :
        /\ Loaded(r) \subseteq Entries \cap PdfNames
        /\ Started(r) => Loaded(r) = Entries \cap PdfNames
        /\ \A i \in DOMAIN docs[r] : docs[r][i] # "n1"
        /\ collection.exists => \A p \in collection.points : p.text # "n1"
        /\ failure[r] = "extract" =>
              /\ events[r] # <<>>
              /\ events[r][Len(events[r])].file \in PdfNames

\* C24 witness: a run on the directory that holds c.PDF and notes.txt next to
\* the two .pdf files loaded the two and finished.
C24_Witness ==
    \E r \in Runs :
        /\ pc[r] = "done"
        /\ "c.PDF" \in Entries /\ "notes.txt" \in Entries
        /\ Loaded(r) = {"a.pdf", "b.pdf"}
        /\ Len(docs[r]) = 5

\* The calls of a tool function that have returned.
Returned(tool) == toolCall # None /\ toolCall.tool = tool

\* The four Wikipedia tools of wiki.py 29-308 and the list-valued result
\* fields of each.
ListFields(tool) ==
    CASE tool = "search_wikipedia_coins" -> {"results"}
      [] tool = "get_wikipedia_coin_summary" -> {}
      [] tool = "get_wikipedia_coin_full_details" -> {"images", "references", "links", "categories"}
      [] tool = "get_wikipedia_coin_images" -> {"images"}

\* C25: every return of search_wikipedia_coins, get_wikipedia_coin_summary,
\* get_wikipedia_coin_full_details and get_wikipedia_coin_images is a dict with
\* a boolean "success"; when success is False its "error" is a non-empty
\* message and each of its list-valued result fields is there and empty.
C25_FailureIsAValue ==
    \A tool \in {"search_wikipedia_coins", "get_wikipedia_coin_summary",
                 "get_wikipedia_coin_full_details", "get_wikipedia_coin_images"} :
        Returned(tool) =>
            /\ "success" \in DOMAIN toolResult
            /\ toolResult.success \in BOOLEAN
            /\ ~toolResult.success =>
                  /\ "error" \in DOMAIN toolResult
                  /\ toolResult.error \notin {None, S("")}
                  /\ \A field \in ListFields(tool) :
                        field \in DOMAIN toolResult /\ toolResult[field] = <<>>

\* The returns of get_wikipedia_coin_summary in the log, in order.
SummaryReturns == SelectSeq(toolLog, LAMBDA c : c.call = "get_wikipedia_coin_summary")

\* C26: compare_wikipedia_coins asks for the summary of coin1, and after it
\* has returned for the summary of coin2; its top-level success is True
\* whatever the two summaries returned, its error is None, and a summary that
\* failed shows only as the success False and the summary None of its coin.
C26_CompareSucceedsWhenSummariesReturn ==
    Returned("compare_wikipedia_coins") =>
        /\ Len(SummaryReturns) = 2
        /\ SummaryReturns[1].arg = toolCall.coin1
        /\ SummaryReturns[2].arg = toolCall.coin2
        /\ toolLog[Len(toolLog)] = SummaryReturns[2]
        /\ \A i \in DOMAIN toolLog :
              toolLog[i].call = "wikipedia.summary" =>
                  /\ toolLog[i + 1].call = "get_wikipedia_coin_summary"
                  /\ toolLog[i + 1].arg = toolLog[i].arg
        /\ DOMAIN toolResult = {"success", "coin1", "coin2", "error"}
        /\ toolResult.success = TRUE
        /\ toolResult.error = None
        /\ \A k \in 1..2 :
              LET coin == IF k = 1 THEN toolResult.coin1 ELSE toolResult.coin2
              IN  /\ DOMAIN coin = {"title", "summary", "success"}
                  /\ coin.title = SummaryReturns[k].arg
                  /\ coin.success = SummaryReturns[k].out.success
                  /\ coin.summary = SummaryReturns[k].out.summary
                  /\ ~coin.success => coin.summary = None

\* C26 witness: a comparison returned in which the summary of coin1 failed
\* and that of coin2 did not.
C26_Witness ==
    /\ Returned("compare_wikipedia_coins")
    /\ toolResult.success
    /\ ~toolResult.coin1.success /\ toolResult.coin1.summary = None
    /\ toolResult.coin2.success /\ toolResult.coin2.summary # None

\* The link titles that hold a numismatic keyword ("cent" in Century, "coin"
\* in Coinage Act, "dime" in DIME), written out.
KeywordTitles == {"Century", "Coinage Act", "DIME", "Gold", "Penny", "Silver"}

\* s is the first n elements of t, or all of t when it has fewer.
IsFirst(s, n, t) ==
    /\ Len(s) = (IF n < Len(t) THEN n ELSE Len(t))
    /\ \A i \in DOMAIN s : s[i] = t[i]

\* C27: for max_links >= 0, a successful get_wikipedia_related_coins returns
\* at most max_links topics: the first max_links of the page links that hold
\* a numismatic keyword when there are five or more of those, else the first
\* max_links of all page links, in the order of the page; count is the length
\* of related_topics.
C27_RelatedTopicsSelection ==
    Returned("get_wikipedia_related_coins") /\ toolResult.success /\ toolCall.max_links >= 0 =>
        LET links == toolLog[1].out.value.links
            matching == SelectSeq(links, LAMBDA l : l \in KeywordTitles)
        IN  /\ Len(toolResult.related_topics) <= toolCall.max_links
            /\ Len(matching) >= 5 => IsFirst(toolResult.related_topics, toolCall.max_links, matching)
            /\ Len(matching) < 5 => IsFirst(toolResult.related_topics, toolCall.max_links, links)
            /\ toolResult.count = Len(toolResult.related_topics)

\* C27 witness: on a page whose first link holds no keyword and which has
\* five or more links that do, three topics were asked for and returned.
C27_Witness ==
    /\ Returned("get_wikipedia_related_coins")
    /\ toolResult.success
    /\ toolCall.max_links = 3
    /\ toolLog[1].out.value.links # <<>>
    /\ toolLog[1].out.value.links[1] = "Art"
    /\ toolResult.related_topics = <<"Century", "Coinage Act", "DIME">>

\* The place where x first stands in s.
FirstPlace(x, s) == CHOOSE i \in DOMAIN s : s[i] = x /\ \A j \in 1..(i - 1) : s[j] # x

\* C28: get_wikipedia_coins_by_country searches "<country> coins", then
\* "<country> currency", then "<country> numismatics".  When the three
\* searches return, it succeeds with every title they returned, each once, in
\* the order of its first occurrence, and count is the number of distinct
\* titles; when a search fails it returns success False with an empty list.
C28_CountrySearchesMerged ==
    Returned("get_wikipedia_coins_by_country") =>
        LET suffixes == <<"{country} coins", "{country} currency", "{country} numismatics">>
            found == toolResult.search_results
        IN  /\ Len(toolLog) <= 3
            /\ \A i \in DOMAIN toolLog :
                  /\ toolLog[i].call = "wikipedia.search"
                  /\ toolLog[i].arg = [str |-> suffixes[i], args |-> <<toolCall.country>>]
            /\ toolResult.success <=>
                  Len(toolLog) = 3 /\ \A i \in 1..3 : toolLog[i].out.kind = "ok"
            /\ ~toolResult.success => found = <<>>
            /\ toolResult.success =>
                  LET all == toolLog[1].out.value \o toolLog[2].out.value \o toolLog[3].out.value
                  IN  /\ {found[i] : i \in DOMAIN found} = {all[i] : i \in DOMAIN all}
                      /\ \A i, j \in DOMAIN found :
                            i < j => FirstPlace(found[i], all) < FirstPlace(found[j], all)
                      /\ toolResult.count = Cardinality({all[i] : i \in DOMAIN all})
                      /\ toolResult.count = Len(found)

\* C28 witness: the second search returned the title of the first search
\* after a new title, and the two titles are returned once each in the order
\* of their first occurrence.
C28_Witness ==
    /\ Returned("get_wikipedia_coins_by_country")
    /\ toolResult.success
    /\ toolLog[1].out.value = <<"Morgan dollar">>
    /\ toolLog[2].out.value = <<"Peace dollar", "Morgan dollar">>
    /\ toolLog[3].out.value = <<"Peace dollar", "Peace dollar">>
    /\ toolResult.search_results = <<"Morgan dollar", "Peace dollar">>
    /\ toolResult.count = 2

\* The HTTP requests of the call that returned.
HttpRequests == SelectSeq(toolLog, LAMBDA c : c.call = "httpx.get")

\* C29: without NUMISTA_API_KEY, or with an empty one, search_numista_coins,
\* get_coin_details and get_coin_pricing return status "error" and make no
\* HTTP request.  With the key they make exactly one request, and when it
\* fails (the transport raises, the status is 404 or 500, the body is not
\* JSON) they return status "error", except that get_coin_pricing returns
\* status "info" for a 404.
C29_NumistaFailureIsAValue ==
    \A tool \in {"search_numista_coins", "get_coin_details", "get_coin_pricing"} :
        Returned(tool) =>
            /\ toolResult.status \in {"success", "error", "info"}
            /\ toolEnv.apiKey = None \/ toolEnv.apiKey = [str |-> "", args |-> <<>>] =>
                  toolResult.status = "error" /\ HttpRequests = <<>>
            /\ toolEnv.apiKey # None /\ toolEnv.apiKey # [str |-> "", args |-> <<>>] =>
                  /\ Len(HttpRequests) = 1
                  /\ LET out == HttpRequests[1].out
                         notFound == out.kind = "response" /\ out.status = 404
                         failed == \/ out.kind = "Exception"
                                   \/ out.kind = "response" /\ (out.status \in {404, 500} \/ ~out.json)
                     IN  /\ toolResult.status = "info" <=> tool = "get_coin_pricing" /\ notFound
                         /\ failed /\ ~(tool = "get_coin_pricing" /\ notFound) =>
                               toolResult.status = "error"
                         /\ ~failed => toolResult.status = "success"

\* C29 witness: with the key set, the one request of get_coin_pricing was
\* answered 404 and the tool returned status "info".
C29_Witness ==
    /\ Returned("get_coin_pricing")
    /\ toolEnv.apiKey = [str |-> "key", args |-> <<>>]
    /\ Len(HttpRequests) = 1
    /\ HttpRequests[1].out.kind = "response"
    /\ HttpRequests[1].out.status = 404
    /\ toolResult.status = "info"

====
